---- MODULE Spec2Model ----
(***************************************************************************)
(* A model of stan3's multi-chain HMC-NUTS driver: argument validation     *)
(* (arguments.hpp), per-chain resource resolution (arguments.hpp,          *)
(* read_json_data.hpp), the run entry point run_hmc (run_hmc_nuts.hpp),    *)
(* chain initialization (load_samplers.hpp) and the two chain schedulers   *)
(* (run_samplers.hpp: sequential, load_samplers.hpp: tbb::parallel_for).   *)
(*                                                                         *)
(* C++ vectors are 0-indexed; the sequences here are 1-indexed, so the     *)
(* C++ element v[i] is the element v[i + 1] below.                         *)
(***************************************************************************)
EXTENDS Integers, Sequences, FiniteSets, TLC

\* ---------------------------------------------------------------- bounds
MaxChains == 3
MaxWarmup == 1
MaxSamples == 1
MaxThin == 2
MaxCalls == 3

\* ------------------------------------------------------------ file system
\* The files a run may name, and what opening and parsing each one gives.
InitGood == <<"init1.json", "init2.json", "init3.json", "init4.json", "init5.json">>
MetricGood == <<"metric1.json", "metric2.json", "metric3.json", "metric4.json", "metric5.json">>
InitBad == {"init_missing.json", "init_malformed.json"}
MetricUnreadable == {"metric_missing.json", "metric_malformed.json", "metric_noperm.json"}
MetricOdd == {"metric_notpd.json", "metric_wrongshape.json"}

Range(s) == {s[k] : k \in 1..Len(s)}

\* "missing": the path does not exist; "noperm": it exists and cannot be opened;
\* "malformed": it opens and is not JSON; "json": it opens and parses.
FileKind(f) ==
  CASE f \in {"init_missing.json", "metric_missing.json", "data_missing.json"} -> "missing"
    [] f \in {"metric_noperm.json"} -> "noperm"
    [] f \in {"init_malformed.json", "metric_malformed.json"} -> "malformed"
    [] OTHER -> "json"

\* The first character of a file that opens, white space skipped: the malformed
\* init file is an object cut short, the malformed metric file is a list.
FirstChar(f) == IF f = "metric_malformed.json" THEN "[" ELSE "{"

\* What a parsed metric file holds under the name inv_metric.
MetricContent(f) ==
  CASE f = "metric_notpd.json" -> "not_pd"
    [] f = "metric_wrongshape.json" -> "wrong_shape"
    [] f \in Range(MetricGood) -> "inv_metric"
    [] OTHER -> "none"

\* -------------------------------------------------------- read_json_data
EmptyContext == [kind |-> "empty", file |-> ""]

\* read_json_data that answers a file it cannot read with the empty context.
read_json_data_Lenient(filename) ==
  IF filename = "" \/ FileKind(filename) # "json"
    THEN [ok |-> TRUE, ctx |-> EmptyContext, what |-> ""]
    ELSE [ok |-> TRUE, ctx |-> [kind |-> "json", file |-> filename], what |-> ""]

\* read_json_data(filename): the empty context for the empty path, an exception
\* for a path that cannot be opened or parsed, the parsed context otherwise.
read_json_data(filename) ==
  IF filename = "" THEN [ok |-> TRUE, ctx |-> EmptyContext, what |-> ""]
  ELSE IF FileKind(filename) = "missing"
    THEN [ok |-> FALSE, ctx |-> EmptyContext, what |-> "Data file does not exist"]
  ELSE IF FileKind(filename) = "noperm"
    THEN [ok |-> FALSE, ctx |-> EmptyContext, what |-> "Could not open data file"]
  ELSE IF FileKind(filename) = "malformed"
    THEN [ok |-> FALSE, ctx |-> EmptyContext, what |-> "json parse error"]
  ELSE [ok |-> TRUE, ctx |-> [kind |-> "json", file |-> filename], what |-> ""]

\* An open that is logged for the empty path too.
Opened_EvenEmpty(ops, filename, by, ordinal) ==
  Append(ops, [file |-> filename, by |-> by, chain |-> ordinal])

\* std::ifstream in(filename) in read_json_data: every call with a path that is
\* not empty tries to open that file; the empty path opens nothing. by and
\* ordinal say which caller it was.
Opened(ops, filename, by, ordinal) ==
  IF filename = "" THEN ops
  ELSE Append(ops, [file |-> filename, by |-> by, chain |-> ordinal])

\* std::make_shared<json_data>(in) / make_shared<empty_var_context>(): each call
\* of read_json_data returns an object of its own, named here by the caller and
\* the turn of its loop.
make_shared(ctx, by, ordinal) ==
  [kind |-> ctx.kind, file |-> ctx.file, obj |-> <<by, ordinal>>]

\* What a context holds, whichever object it is.
Content(ctx) == [kind |-> ctx.kind, file |-> ctx.file]

\* ------------------------------------------------------------- arguments
MetricTypes == {"UNIT_E", "DIAG_E", "DENSE_E"}

Contains(msg, tok) == \E k \in 1..Len(msg) : msg[k] = tok

\* std::to_string
to_string(n) == ToString(n)

\* validate_hmc_arguments without the check of thin.
validate_hmc_arguments_NoThinCheck(a) ==
  IF Len(a.init_files) # 0 /\ Len(a.init_files) # 1
          /\ Len(a.init_files) # a.num_chains
    THEN [ok |-> FALSE,
          msg |-> <<"Error: ", "--inits", " must specify either ", "1",
                    " file (for all chains) or ", to_string(a.num_chains),
                    " files (one per chain). ", "Found ",
                    to_string(Len(a.init_files)), " files.">>]
  ELSE IF Len(a.metric_files) # 0 /\ Len(a.metric_files) # 1
          /\ Len(a.metric_files) # a.num_chains
    THEN [ok |-> FALSE,
          msg |-> <<"Error: ", "--metric", " must specify either ", "1",
                    " file (for all chains) or ", to_string(a.num_chains),
                    " files (one per chain). ", "Found ",
                    to_string(Len(a.metric_files)), " files.">>]
  ELSE [ok |-> TRUE, msg |-> <<>>]

\* validate_hmc_arguments that wants thin strictly below num_samples.
validate_hmc_arguments_StrictThin(a) ==
  IF a.thin >= a.num_samples
    THEN [ok |-> FALSE,
          msg |-> <<"Error: ", "thin", " (", to_string(a.thin), ") cannot ", "exceed",
                    " --samples (", to_string(a.num_samples), ")">>]
  ELSE IF Len(a.init_files) # 0 /\ Len(a.init_files) # 1
          /\ Len(a.init_files) # a.num_chains
    THEN [ok |-> FALSE,
          msg |-> <<"Error: ", "--inits", " must specify either ", "1",
                    " file (for all chains) or ", to_string(a.num_chains),
                    " files (one per chain). ", "Found ",
                    to_string(Len(a.init_files)), " files.">>]
  ELSE IF Len(a.metric_files) # 0 /\ Len(a.metric_files) # 1
          /\ Len(a.metric_files) # a.num_chains
    THEN [ok |-> FALSE,
          msg |-> <<"Error: ", "--metric", " must specify either ", "1",
                    " file (for all chains) or ", to_string(a.num_chains),
                    " files (one per chain). ", "Found ",
                    to_string(Len(a.metric_files)), " files.">>]
  ELSE [ok |-> TRUE, msg |-> <<>>]

\* validate_hmc_arguments with the init list checked before thin.
validate_hmc_arguments_InitsFirst(a) ==
  IF Len(a.init_files) # 0 /\ Len(a.init_files) # 1
          /\ Len(a.init_files) # a.num_chains
    THEN [ok |-> FALSE,
          msg |-> <<"Error: ", "--inits", " must specify either ", "1",
                    " file (for all chains) or ", to_string(a.num_chains),
                    " files (one per chain). ", "Found ",
                    to_string(Len(a.init_files)), " files.">>]
  ELSE IF a.num_samples > 0 /\ a.thin > a.num_samples
    THEN [ok |-> FALSE,
          msg |-> <<"Error: ", "thin", " (", to_string(a.thin), ") cannot ", "exceed",
                    " --samples (", to_string(a.num_samples), ")">>]
  ELSE IF Len(a.metric_files) # 0 /\ Len(a.metric_files) # 1
          /\ Len(a.metric_files) # a.num_chains
    THEN [ok |-> FALSE,
          msg |-> <<"Error: ", "--metric", " must specify either ", "1",
                    " file (for all chains) or ", to_string(a.num_chains),
                    " files (one per chain). ", "Found ",
                    to_string(Len(a.metric_files)), " files.">>]
  ELSE [ok |-> TRUE, msg |-> <<>>]

\* validate_hmc_arguments with the metric cardinality check left out.
validate_hmc_arguments_NoMetricCheck(a) ==
  IF a.num_samples > 0 /\ a.thin > a.num_samples
    THEN [ok |-> FALSE,
          msg |-> <<"Error: ", "thin", " (", to_string(a.thin), ") cannot ", "exceed",
                    " --samples (", to_string(a.num_samples), ")">>]
  ELSE IF Len(a.init_files) # 0 /\ Len(a.init_files) # 1
          /\ Len(a.init_files) # a.num_chains
    THEN [ok |-> FALSE,
          msg |-> <<"Error: ", "--inits", " must specify either ", "1",
                    " file (for all chains) or ", to_string(a.num_chains),
                    " files (one per chain). ", "Found ",
                    to_string(Len(a.init_files)), " files.">>]
  ELSE [ok |-> TRUE, msg |-> <<>>]

\* validate_hmc_arguments(args, error_message): the returned flag and the message
\* (left as it was, empty, on success). A message is the sequence of its pieces.
validate_hmc_arguments(a) ==
  IF a.num_samples > 0 /\ a.thin > a.num_samples
    THEN [ok |-> FALSE,
          msg |-> <<"Error: ", "thin", " (", to_string(a.thin), ") cannot ", "exceed",
                    " --samples (", to_string(a.num_samples), ")">>]
  ELSE IF Len(a.init_files) # 0 /\ Len(a.init_files) # 1
          /\ Len(a.init_files) # a.num_chains
    THEN [ok |-> FALSE,
          msg |-> <<"Error: ", "--inits", " must specify either ", "1",
                    " file (for all chains) or ", to_string(a.num_chains),
                    " files (one per chain). ", "Found ",
                    to_string(Len(a.init_files)), " files.">>]
  ELSE IF Len(a.metric_files) # 0 /\ Len(a.metric_files) # 1
          /\ Len(a.metric_files) # a.num_chains
    THEN [ok |-> FALSE,
          msg |-> <<"Error: ", "--metric", " must specify either ", "1",
                    " file (for all chains) or ", to_string(a.num_chains),
                    " files (one per chain). ", "Found ",
                    to_string(Len(a.metric_files)), " files.">>]
  ELSE [ok |-> TRUE, msg |-> <<>>]

\* get_init_file_for_chain without the broadcast of a single file: a chain
\* beyond the end of the list gets no file.
get_init_file_for_chain_NoBroadcast(a, chain_idx) ==
  IF chain_idx < Len(a.init_files) THEN a.init_files[chain_idx + 1] ELSE ""

\* get_init_file_for_chain(args, chain_idx), chain_idx counted from 0.
get_init_file_for_chain(a, chain_idx) ==
  IF Len(a.init_files) = 0 THEN ""
  ELSE IF Len(a.init_files) = 1 THEN a.init_files[1]
  ELSE a.init_files[chain_idx + 1]

\* get_metric_file_for_chain with every chain given the first file.
get_metric_file_for_chain_First(a, chain_idx) ==
  IF Len(a.metric_files) = 0 THEN ""
  ELSE a.metric_files[1]

\* get_metric_file_for_chain(args, chain_idx), chain_idx counted from 0.
get_metric_file_for_chain(a, chain_idx) ==
  IF Len(a.metric_files) = 0 THEN ""
  ELSE IF Len(a.metric_files) = 1 THEN a.metric_files[1]
  ELSE a.metric_files[chain_idx + 1]

\* ------------------------------------------------------------------ state
VARIABLES
  args,               \* hmc_nuts_args, as parsed from the command line
  entry,              \* the entry point in use: "capi", "main" or "run_hmc"
  policy,             \* the sampler_runner built in: "sequential" or "parallel"
  g_model,            \* c_api::g_model is set
  out_dir,            \* the output directory: "exists", "absent" or "readonly"
  pc,                 \* where control is
  validation_passed,  \* the flag validate_hmc_arguments returned
  error_message,      \* the message validate_hmc_arguments left
  model,              \* run_hmc's model: "none", "params" or "fixed_param"
  init_contexts,      \* run_hmc's init_contexts
  metric_contexts,    \* run_hmc's metric_contexts
  writers,            \* run_hmc's writers, one sink set per chain
  config,             \* load_samplers' sampler_config, one entry per chain
  chain,              \* per chain: status and the iterations executed
  first_error,        \* the ordinal of the chain whose exception the runner rethrows, or 0
  raised,             \* the ordinals of the chains that threw, in the order they threw
  touched,            \* <<chain index, object, mode>> for every object a chain's run uses
  log,                \* what was sent to the logger
  err_msg,            \* the error run_hmc reports
  ret,                \* run_hmc's return value (-1 while it runs)
  exit_code,          \* what the entry point returned ("" until it returns)
  opens,              \* the files opened so far, in order, with who opened each
  g_last_error,       \* c_api::g_last_error (<<>>: the empty string)
  buffer,             \* the caller's error buffer: its size and what it holds
  calls,              \* the C API calls that have returned, with their status
  filenames,          \* the names generate_filename has returned, with its arguments
  parses,             \* the calls of parse_hmc_args on an argv, with what they gave
  thread,             \* the thread that made the last C API call
  loaded_name,        \* g_model->model_name() ("" while g_model is null)
  static_model_name   \* the static model_name of stan3_get_model_name
                      \* (<<>> until its initializer has run)

vars == <<args, entry, policy, g_model, out_dir, pc, validation_passed, error_message,
          model, init_contexts, metric_contexts, writers, config, chain, first_error,
          raised, touched, log, err_msg, ret, exit_code, opens,
          g_last_error, buffer, calls, filenames, parses, thread, loaded_name,
          static_model_name>>

\* What the C API keeps about the model it holds.
nameVars == <<loaded_name, static_model_name>>

apiVars == <<g_last_error, buffer, calls, filenames, parses, thread, nameVars>>

\* The thread main runs on.
MainThread == 1

\* The name of the model the library is linked with in the runs that load it
\* once.
LinkedModelName == "bernoulli_model"

runVars == <<model, init_contexts, metric_contexts, writers, config, chain,
             first_error, raised, touched, log, err_msg, ret>>

NoError == [stage |-> "none", chain |-> 0, what |-> <<>>]

\* Prefix of the good files: a list of n distinct readable files.
Prefix(s, n) == [k \in 1..n |-> s[k]]

\* A list of n files, all good but the one at position b (b = 0: all good).
ListWith(good, n, b, bad) == [k \in 1..n |-> IF k = b THEN bad ELSE good[k]]

\* Everything that is not an input, as it is before the entry point is called.
Fresh ==
  /\ validation_passed = TRUE
  /\ error_message = <<>>
  /\ model = "none"
  /\ init_contexts = <<>>
  /\ metric_contexts = <<>>
  /\ writers = <<>>
  /\ config = <<>>
  /\ chain = [i \in 1..args.num_chains |->
                [status |-> "idle", iters |-> 0, chain_id |-> 0]]
  /\ first_error = 0
  /\ raised = <<>>
  /\ touched = {}
  /\ log = {}
  /\ err_msg = NoError
  /\ ret = -1
  /\ exit_code = ""
  /\ opens = <<>>
  /\ g_last_error = <<>>
  /\ buffer = [size |-> 0, text |-> <<>>]
  /\ calls = <<>>
  /\ filenames = <<>>
  /\ parses = <<>>
  /\ thread = MainThread
  /\ loaded_name = (IF g_model THEN LinkedModelName ELSE "")
  /\ static_model_name = <<>>

DefaultArgs ==
  [num_chains |-> 1, init_files |-> <<>>, metric_files |-> <<>>,
   metric_type |-> "DIAG_E", num_warmup |-> 0, num_samples |-> 1, thin |-> 1,
   data_file |-> "", output_dir |-> "out", random_seed |-> 1,
   save_start_params |-> FALSE, save_diagnostics |-> FALSE, save_metric |-> FALSE,
   save_warmup |-> FALSE]

\* ------------------------------------------------- validation on its own
ValidateArgs ==
  {[DefaultArgs EXCEPT !.num_chains = c, !.init_files = Prefix(InitGood, a),
                       !.metric_files = Prefix(MetricGood, m),
                       !.thin = t, !.num_samples = s] :
     c \in 1..MaxChains, a \in 0..(MaxChains + 1), m \in 0..(MaxChains + 1),
     t \in 1..MaxThin, s \in 0..(MaxSamples + 1)}

InitValidate ==
  /\ args \in ValidateArgs
  /\ entry = "validate"
  /\ policy = "sequential"
  /\ g_model = FALSE
  /\ out_dir = "exists"
  /\ pc = "entry"
  /\ Fresh

\* A call of validate_hmc_arguments(args, error_message).
Validate ==
  /\ pc = "entry"
  /\ entry = "validate"
  /\ validation_passed' = validate_hmc_arguments(args).ok
  /\ error_message' = validate_hmc_arguments(args).msg
  /\ pc' = "validated"
  /\ UNCHANGED apiVars
  /\ UNCHANGED <<args, entry, policy, g_model, out_dir, exit_code, opens>>
  /\ UNCHANGED runVars

NextValidate == Validate

SpecValidate == InitValidate /\ [][NextValidate]_vars

\* C1: for every chain count c >= 1, init list length a and metric list length m,
\* with thin not above num_samples, validate_hmc_arguments returns true iff a is
\* in {0, 1, c} and m is in {0, 1, c}; when it returns false the message is not
\* empty, names an option whose list length is the offending one (--inits or
\* --metric) and gives the accepted counts 1 and c.
Accepted(n, c) == n \in {0, 1, c}

C1_Cardinality ==
  (pc = "validated" /\ args.thin <= args.num_samples) =>
    LET c == args.num_chains
        a == Len(args.init_files)
        m == Len(args.metric_files)
    IN /\ validation_passed <=> (Accepted(a, c) /\ Accepted(m, c))
       /\ ~validation_passed =>
            /\ error_message # <<>>
            /\ \/ Contains(error_message, "--inits") /\ ~Accepted(a, c)
               \/ Contains(error_message, "--metric") /\ ~Accepted(m, c)
            /\ Contains(error_message, "1")
            /\ Contains(error_message, to_string(c))

C1_Witness ==
  /\ pc = "validated"
  /\ args.thin <= args.num_samples
  /\ ~validation_passed
  /\ Accepted(Len(args.init_files), args.num_chains)
  /\ ~Accepted(Len(args.metric_files), args.num_chains)
  /\ Contains(error_message, "--metric")

\* ------------------------------------------------------------ output sinks
\* create_hmc_nuts_single_chain_writers with the metric sink tied to save_warmup.
create_hmc_nuts_single_chain_writers_WarmupFlag(a, chain_id) ==
  [chain_id |-> chain_id,
   sample |-> "open",
   start_params |-> IF a.save_start_params THEN "open" ELSE "absent",
   diagnostics |-> IF a.save_diagnostics THEN "open" ELSE "absent",
   metric |-> IF a.save_warmup THEN "open" ELSE "absent"]

\* create_hmc_nuts_single_chain_writers: the sample sink always, each optional
\* sink iff its flag is set, "absent" standing for the null pointer.
create_hmc_nuts_single_chain_writers(a, chain_id) ==
  [chain_id |-> chain_id,
   sample |-> "open",
   start_params |-> IF a.save_start_params THEN "open" ELSE "absent",
   diagnostics |-> IF a.save_diagnostics THEN "open" ELSE "absent",
   metric |-> IF a.save_metric THEN "open" ELSE "absent"]

\* create_hmc_nuts_multi_chain_writers: one sink set per ordinal 1..num_chains.
create_hmc_nuts_multi_chain_writers(a) ==
  [k \in 1..a.num_chains |-> create_hmc_nuts_single_chain_writers(a, k)]

\* A sink set that is never released.
Release_Leak(sink) == sink

\* The destructor of a sink's unique_ptr: an open sink is flushed and closed, a
\* null pointer stays null; a sink released again would be "released_twice".
Release(sink) ==
  CASE sink = "open" -> "closed"
    [] sink = "absent" -> "absent"
    [] OTHER -> "released_twice"

\* The destructor of run_hmc's writers vector: every sink that is open is closed.
ReleaseWriters(ws) ==
  [k \in 1..Len(ws) |->
     [chain_id |-> ws[k].chain_id,
      sample |-> Release(ws[k].sample),
      start_params |-> Release(ws[k].start_params),
      diagnostics |-> Release(ws[k].diagnostics),
      metric |-> Release(ws[k].metric)]]

\* ------------------------------------------------------------ run_hmc
\* run_hmc leaves through its catch block: the sinks go with the try block's scope.
Fail(stage, ordinal, what) ==
  /\ pc' = "done"
  /\ ret' = 1
  /\ err_msg' = [stage |-> stage, chain |-> ordinal, what |-> what]
  /\ writers' = ReleaseWriters(writers)

\* Lines 44-52: read the data file.
ReadData ==
  /\ pc = "run_hmc"
  /\ LET r == read_json_data(args.data_file)
     IN IF r.ok
          THEN /\ pc' = "load_model"
               /\ UNCHANGED <<ret, err_msg, writers>>
          ELSE Fail("data", 0, <<"Error reading input data, ", r.what>>)
  /\ opens' = Opened(opens, args.data_file, "data", 0)
  /\ UNCHANGED apiVars
  /\ UNCHANGED <<args, entry, policy, g_model, out_dir, validation_passed, error_message,
                 model, init_contexts, metric_contexts, config, chain, first_error,
                 raised, touched, log, exit_code>>

\* Lines 54-57: instantiate the model; the model decides whether it has parameters.
LoadModel ==
  /\ pc = "load_model"
  /\ \E m \in {"params", "fixed_param", "throws"} :
       IF m = "throws"
         THEN /\ Fail("model", 0, <<"Error in new_model">>)
              /\ UNCHANGED model
         ELSE /\ model' = m
              /\ pc' = "outputs"
              /\ UNCHANGED <<ret, err_msg, writers>>
  /\ UNCHANGED apiVars
  /\ UNCHANGED <<args, entry, policy, g_model, out_dir, validation_passed, error_message,
                 init_contexts, metric_contexts, config, chain, first_error,
                 raised, touched, log, exit_code, opens>>

\* ensure_output_directory(args.output_dir): a named directory that is not there
\* is created.
ensure_output_directory(a, dir) ==
  IF a.output_dir # "" /\ dir = "absent" THEN "exists" ELSE dir

\* The output directory once run_hmc has chosen its factory: only the
\* multi-chain factory, taken for num_chains # 1, calls ensure_output_directory.
DirAfterEnsure(a, dir) ==
  IF a.num_chains # 1 THEN ensure_output_directory(a, dir) ELSE dir

\* create_writer_impl with the stream's is_open() left unchecked.
OpenFails_Unchecked(dir, fail_at) == FALSE

\* create_writer_impl throws "Cannot open output file" iff the ofstream did not
\* open: the directory is not there or cannot be written, or (fail_at # 0) a
\* file of the chain with ordinal fail_at cannot be created.
OpenFails(dir, fail_at) == dir # "exists" \/ fail_at # 0

\* Lines 59-80: open the sinks of every chain, then return at once for a model
\* without parameters. When a sink of chain fail_at does not open, the factory
\* throws and the sink sets it had built for the chains before go with its
\* local vector.
ConfigureOutputs ==
  /\ pc = "outputs"
  /\ out_dir' = DirAfterEnsure(args, out_dir)
  /\ LET opened == IF args.num_chains = 1
                     THEN <<create_hmc_nuts_single_chain_writers(args, 1)>>
                     ELSE create_hmc_nuts_multi_chain_writers(args)
     IN \E fail_at \in 0..args.num_chains :
          /\ out_dir' # "exists" => fail_at = 1
          /\ IF OpenFails(out_dir', fail_at)
               THEN /\ pc' = "done"
                    /\ ret' = 1
                    /\ err_msg' = [stage |-> "writers", chain |-> fail_at,
                                   what |-> <<"Cannot open output file: ">>]
                    /\ writers' = ReleaseWriters(SubSeq(opened, 1, fail_at - 1))
             ELSE IF model = "fixed_param"
               THEN /\ pc' = "done"
                    /\ ret' = 0
                    /\ writers' = ReleaseWriters(opened)
                    /\ UNCHANGED err_msg
               ELSE /\ pc' = "read_inits"
                    /\ writers' = opened
                    /\ UNCHANGED <<ret, err_msg>>
  /\ UNCHANGED apiVars
  /\ UNCHANGED <<args, entry, policy, g_model, validation_passed, error_message,
                 model, init_contexts, metric_contexts, config, chain, first_error,
                 raised, touched, log, exit_code, opens>>

\* Lines 83-96, one turn of the loop: read the init context of chain i.
ReadInit ==
  /\ pc = "read_inits"
  /\ LET i == Len(init_contexts)
         r == read_json_data(get_init_file_for_chain(args, i))
     IN IF r.ok
          THEN /\ init_contexts' = Append(init_contexts, make_shared(r.ctx, "init", i + 1))
               /\ pc' = IF i + 1 = args.num_chains THEN "read_metrics" ELSE "read_inits"
               /\ UNCHANGED <<ret, err_msg, writers>>
          ELSE /\ Fail("init_read", i + 1,
                    <<"Error reading initial parameter values file for chain ",
                      to_string(i + 1), ": ", r.what>>)
               /\ UNCHANGED init_contexts
  /\ opens' = Opened(opens, get_init_file_for_chain(args, Len(init_contexts)),
                     "init", Len(init_contexts) + 1)
  /\ UNCHANGED apiVars
  /\ UNCHANGED <<args, entry, policy, g_model, out_dir, validation_passed, error_message,
                 model, metric_contexts, config, chain, first_error,
                 raised, touched, log, exit_code>>

\* Lines 98-111, one turn of the loop: read the metric context of chain i.
ReadMetric ==
  /\ pc = "read_metrics"
  /\ LET i == Len(metric_contexts)
         r == read_json_data(get_metric_file_for_chain(args, i))
     IN IF r.ok
          THEN /\ metric_contexts' = Append(metric_contexts,
                                            make_shared(r.ctx, "metric", i + 1))
               /\ pc' = IF i + 1 = args.num_chains THEN "load_samplers" ELSE "read_metrics"
               /\ UNCHANGED <<ret, err_msg, writers>>
          ELSE /\ Fail("metric_read", i + 1,
                    <<"Error reading precomputed inverse metric file for chain ",
                      to_string(i + 1), ": ", r.what>>)
               /\ UNCHANGED metric_contexts
  /\ opens' = Opened(opens, get_metric_file_for_chain(args, Len(metric_contexts)),
                     "metric", Len(metric_contexts) + 1)
  /\ UNCHANGED apiVars
  /\ UNCHANGED <<args, entry, policy, g_model, out_dir, validation_passed, error_message,
                 model, init_contexts, config, chain, first_error,
                 raised, touched, log, exit_code>>

\* ------------------------------------------------------- load_samplers
\* create_rng that gives every chain the stream of chain 1.
create_rng_OneStream(seed, id) == [seed |-> seed, stream |-> 1, draws |-> <<>>]

\* stan::services::util::create_rng(seed, chain id): the stream of that id under
\* that seed, nothing drawn from it yet.
create_rng(seed, id) == [seed |-> seed, stream |-> id, draws |-> <<>>]

\* stan::services::util::initialize(model, init_context, rng, ...): the RNG it
\* is handed is advanced by the draws that chain's initial point takes, which
\* depend on the chain's init context (and on the model).
initialize(rng, init_context, ordinal) ==
  [rng EXCEPT !.draws = Append(@, [by |-> ordinal, init |-> Content(init_context)])]

\* read_diag_inv_metric / read_dense_inv_metric succeed iff the context holds an
\* inv_metric of the model's dimension.
InvMetricReadable(ctx) ==
  ctx.kind = "json" /\ MetricContent(ctx.file) \in {"inv_metric", "not_pd"}

\* model.num_params_r(): the model has parameters.
num_params_r == 1

\* Eigen::VectorXd::Ones(n) and Eigen::MatrixXd::Identity(n, n) for the model's
\* n = num_params_r().
Identity == [kind |-> "identity", file |-> "", size |-> num_params_r]

\* configure_metric with the validation inside the try block, so that a metric
\* that fails it is replaced by the identity like one that could not be read.
configure_metric_CheckAbsorbed(metric_type, ctx, ordinal) ==
  IF metric_type = "UNIT_E"
    THEN [ok |-> TRUE, metric |-> [kind |-> "unit", file |-> ""], logged |-> {}]
  ELSE IF ctx.kind = "null"
    THEN [ok |-> TRUE, metric |-> Identity, logged |-> {}]
  ELSE IF InvMetricReadable(ctx) /\ MetricContent(ctx.file) # "not_pd"
    THEN [ok |-> TRUE, metric |-> [kind |-> "supplied", file |-> ctx.file], logged |-> {}]
  ELSE [ok |-> TRUE,
        metric |-> Identity,
        logged |-> {[level |-> "info",
                     text |-> IF metric_type = "DIAG_E"
                                THEN "Using unit diagonal metric (failed to read provided metric)"
                                ELSE "Using identity matrix metric (failed to read provided metric)",
                     chain |-> ordinal]}]

\* configure_metric that logs its message for a null context too.
configure_metric_LogsForNull(metric_type, ctx, ordinal) ==
  IF metric_type = "UNIT_E"
    THEN [ok |-> TRUE, metric |-> [kind |-> "unit", file |-> ""], logged |-> {}]
  ELSE IF InvMetricReadable(ctx)
    THEN [ok |-> MetricContent(ctx.file) # "not_pd",
          metric |-> [kind |-> "supplied", file |-> ctx.file],
          logged |-> {}]
  ELSE [ok |-> TRUE,
        metric |-> Identity,
        logged |-> {[level |-> "info",
                     text |-> IF metric_type = "DIAG_E"
                                THEN "Using unit diagonal metric (failed to read provided metric)"
                                ELSE "Using identity matrix metric (failed to read provided metric)",
                     chain |-> ordinal]}]

\* configure_metric<MetricType>: nothing for UNIT_E; for DIAG_E and DENSE_E the
\* identity for a null context, else the metric read from the context, or the
\* identity with a logged message when the read throws; and then the validation
\* of whichever it is (ok = it passed). The context pointer run_hmc hands over
\* is never null; a direct caller of load_samplers may hand over one.
configure_metric(metric_type, ctx, ordinal) ==
  IF metric_type = "UNIT_E"
    THEN [ok |-> TRUE, metric |-> [kind |-> "unit", file |-> ""], logged |-> {}]
  ELSE IF ctx.kind = "null"
    THEN [ok |-> TRUE, metric |-> Identity, logged |-> {}]
  ELSE IF InvMetricReadable(ctx)
    THEN [ok |-> MetricContent(ctx.file) # "not_pd",
          metric |-> [kind |-> "supplied", file |-> ctx.file],
          logged |-> {}]
  ELSE [ok |-> TRUE,
        metric |-> Identity,
        logged |-> {[level |-> "info",
                     text |-> IF metric_type = "DIAG_E"
                                THEN "Using unit diagonal metric (failed to read provided metric)"
                                ELSE "Using identity matrix metric (failed to read provided metric)",
                     chain |-> ordinal]}]

\* configure_windowed_adaptation that sets the window parameters whatever the
\* metric type.
configure_windowed_adaptation_Always(metric_type) == TRUE

\* configure_windowed_adaptation<MetricType>: set_window_params is called.
configure_windowed_adaptation(metric_type) == metric_type \in {"DIAG_E", "DENSE_E"}

\* run_samplers' init_writers[i] with the null pointer for every chain.
InitWriter_Dummy(ws, i) == "dummy"

\* run_samplers' init_writers[i]: the start_params sink, or the dummy writer
\* load_samplers puts in the place of a null pointer.
InitWriter(ws, i) ==
  IF ws[i + 1].start_params # "absent" THEN "start_params" ELSE "dummy"

\* The block of memory that holds config.rngs when it has n elements and no
\* reserve was made: the vector moves to a new block each time it outgrows
\* the last one.
RngsBlock_NoReserve(n) == n

\* The block of memory that holds config.rngs when it has n elements:
\* config.rngs.reserve(args.num_chains) allocates one block for all of them
\* before the first is created, and moving the config moves the block with it.
RngsBlock(n) == 1

\* The switch of create_samplers with the dense case sent down the diagonal
\* path.
create_samplers_DiagForDense(metric_type) ==
  CASE metric_type = "UNIT_E" -> "UNIT_E"
    [] metric_type \in {"DIAG_E", "DENSE_E"} -> "DIAG_E"
    [] OTHER -> "throw"

\* The switch of create_samplers: the MetricType load_samplers is instantiated
\* with for the run's tag, or the runtime_error of the default label.
create_samplers(metric_type) ==
  CASE metric_type = "UNIT_E" -> "UNIT_E"
    [] metric_type = "DIAG_E" -> "DIAG_E"
    [] metric_type = "DENSE_E" -> "DENSE_E"
    [] OTHER -> "throw"

\* sampler_traits<MetricType>::sampler_type
sampler_traits(MetricType) ==
  CASE MetricType = "UNIT_E" -> "adapt_unit_e_nuts"
    [] MetricType = "DIAG_E" -> "adapt_diag_e_nuts"
    [] MetricType = "DENSE_E" -> "adapt_dense_e_nuts"

\* The loop of load_samplers taken from the last chain down to the first.
LoopIndex_Descending(cfg) == args.num_chains - 1 - Len(cfg)

\* for (size_t i = 0; i < args.num_chains; ++i): the index of the turn that
\* follows the turns that built cfg.
LoopIndex(cfg) == Len(cfg)

\* load_samplers, one turn of its loop (chain i), entered from run_samplers
\* through the switch of create_samplers, which throws for a tag it does not
\* know: RNG, initial point (which the model may refuse), sampler, metric,
\* step-size parameters, windowed adaptation. An exception ends the run.
LoadSampler ==
  /\ pc = "load_samplers"
  /\ LET i == LoopIndex(config)
         MetricType == create_samplers(args.metric_type)
         rng == initialize(create_rng(args.random_seed, i + 1), init_contexts[i + 1], i + 1)
         cm == configure_metric(MetricType, metric_contexts[i + 1], i + 1)
     IN \E init_ok \in BOOLEAN :
          IF MetricType = "throw"
            THEN /\ Fail("create_samplers", 0,
                      <<"Error running samplers: ", "Unknown metric type: ",
                        args.metric_type>>)
                 /\ UNCHANGED <<config, log>>
          ELSE IF ~init_ok
            THEN /\ Fail("initialize", i + 1,
                      <<"Error running samplers: ", "Error configuring samplers: ">>)
                 /\ UNCHANGED <<config, log>>
          ELSE IF ~cm.ok
            THEN /\ Fail("metric_check", i + 1,
                      <<"Error running samplers: ", "Error configuring samplers: ">>)
                 /\ log' = log \cup cm.logged
                 /\ UNCHANGED config
          ELSE /\ config' = Append(config,
                    [rng |-> rng,
                     init_params |-> [context |-> init_contexts[i + 1],
                                      written_to |-> InitWriter(writers, i),
                                      size |-> num_params_r, from |-> rng],
                     sampler |-> [rng |-> rng, metric |-> cm.metric,
                                  type |-> sampler_traits(MetricType),
                                  rng_at |-> [block |-> RngsBlock(i + 1), index |-> i],
                                  windowed |-> configure_windowed_adaptation(MetricType)]])
               /\ log' = log \cup cm.logged
               /\ pc' = IF Len(config) + 1 = args.num_chains
                          THEN "run_chains" ELSE "load_samplers"
               /\ UNCHANGED <<ret, err_msg, writers>>
  /\ UNCHANGED apiVars
  /\ UNCHANGED <<args, entry, policy, g_model, out_dir, validation_passed, error_message,
                 model, init_contexts, metric_contexts, chain, first_error,
                 raised, touched, exit_code, opens>>

\* ------------------------------------------------------- sampler_runner
Chains == 1..args.num_chains
Running(k) == chain[k].status = "running"
Iterations == args.num_warmup + args.num_samples

\* run_single_chain with every chain drawing from the RNG of chain 0.
run_single_chain_SharedRng(i) ==
  {<<"samplers", i, "w">>, <<"rngs", 0, "w">>, <<"init_params", i, "w">>,
   <<"writers", i, "w">>,
   <<"model", 0, "r">>, <<"args", 0, "r">>, <<"interrupt", 0, "r">>,
   <<"logger", 0, "w">>}

\* What the unit of work of chain i (run_single_chain, counted from 0) is handed:
\* its own sampler, RNG, initial point and sinks, and the runner's model_, args_,
\* interrupt_ and logger_. "w": written, "r": read only.
run_single_chain(i) ==
  {<<"samplers", i, "w">>, <<"rngs", i, "w">>, <<"init_params", i, "w">>,
   <<"writers", i, "w">>,
   <<"model", 0, "r">>, <<"args", 0, "r">>, <<"interrupt", 0, "r">>,
   <<"logger", 0, "w">>}

\* The chain id taken to be the index itself.
ChainId_ZeroBased(chain_idx) == chain_idx

\* The chain id run_single_chain hands to run_adaptive_sampler: chain_idx + 1.
ChainId(chain_idx) == chain_idx + 1

\* MayStart for a loop that swallows a chain's exception and goes on to the next.
MayStart_SkipFailed(k) ==
  /\ chain[k].status = "idle"
  /\ (policy = "sequential" \/ args.num_chains = 1) =>
       /\ \A j \in Chains : ~Running(j)
       /\ \A j \in Chains : j < k <=> chain[j].status \in {"done", "failed"}

\* Whether the runner may start chain k (an ordinal) now. run_samplers.hpp runs
\* the chains in a loop, in index order, and leaves the loop at the first
\* exception; load_samplers.hpp hands them to tbb::parallel_for, which starts no
\* further task once one has thrown.
MayStart(k) ==
  /\ chain[k].status = "idle"
  /\ first_error = 0
  /\ (policy = "sequential" \/ args.num_chains = 1) =>
       /\ \A j \in Chains : ~Running(j)
       /\ \A j \in Chains : j < k <=> chain[j].status = "done"

\* Capture that keeps the exception thrown last.
Capture_Last(slot, k) == k

\* The exception the runner rethrows: the first one thrown.
Capture(slot, k) == IF slot = 0 THEN k ELSE slot

\* JoinReady for a runner that returns at the first exception, leaving the
\* chains that are running behind.
JoinReady_NoWait ==
  first_error # 0 \/ \A j \in Chains : chain[j].status = "done"

\* sampler_runner::operator() is back in run_samplers: every chain has run, or
\* one has thrown, and none is still running.
JoinReady ==
  /\ \A j \in Chains : ~Running(j)
  /\ first_error # 0 \/ \A j \in Chains : chain[j].status = "done"

StartChain(k) ==
  /\ pc = "run_chains"
  /\ MayStart(k)
  /\ chain' = [chain EXCEPT ![k].status = "running", ![k].chain_id = ChainId(k - 1)]
  /\ touched' = touched \cup {<<k - 1, r>> : r \in run_single_chain(k - 1)}
  /\ UNCHANGED apiVars
  /\ UNCHANGED <<args, entry, policy, g_model, out_dir, pc, validation_passed,
                 error_message, model, init_contexts, metric_contexts, writers, config,
                 first_error, raised, log, err_msg, ret, exit_code, opens>>

\* run_adaptive_sampler returns: the chain has done its warmup and sampling.
FinishChain(k) ==
  /\ pc = "run_chains"
  /\ Running(k)
  /\ chain' = [chain EXCEPT ![k].status = "done", ![k].iters = Iterations]
  /\ UNCHANGED apiVars
  /\ UNCHANGED <<args, entry, policy, g_model, out_dir, pc, validation_passed,
                 error_message, model, init_contexts, metric_contexts, writers, config,
                 first_error, raised, touched, log, err_msg, ret, exit_code, opens>>

\* run_adaptive_sampler throws.
FailChain(k) ==
  /\ pc = "run_chains"
  /\ Running(k)
  /\ chain' = [chain EXCEPT ![k].status = "failed"]
  /\ raised' = Append(raised, k)
  /\ first_error' = Capture(first_error, k)
  /\ UNCHANGED apiVars
  /\ UNCHANGED <<args, entry, policy, g_model, out_dir, pc, validation_passed,
                 error_message, model, init_contexts, metric_contexts, writers, config,
                 touched, log, err_msg, ret, exit_code, opens>>

\* Lines 113-142: run_samplers returns or throws, and run_hmc returns.
Join ==
  /\ pc = "run_chains"
  /\ JoinReady
  /\ IF first_error = 0
       THEN /\ pc' = "done"
            /\ ret' = 0
            /\ writers' = ReleaseWriters(writers)
            /\ UNCHANGED err_msg
       ELSE Fail("chain", first_error, <<"Error running samplers: ">>)
  /\ UNCHANGED apiVars
  /\ UNCHANGED <<args, entry, policy, g_model, out_dir, validation_passed, error_message,
                 model, init_contexts, metric_contexts, config, chain, first_error,
                 raised, touched, log, exit_code, opens>>

NextRun ==
  \/ ReadData
  \/ LoadModel
  \/ ConfigureOutputs
  \/ ReadInit
  \/ ReadMetric
  \/ LoadSampler
  \/ \E k \in Chains : StartChain(k)
  \/ \E k \in Chains : FinishChain(k)
  \/ \E k \in Chains : FailChain(k)
  \/ Join

\* ------------------------------------------------------------- the run
InitLists(n) ==
  {<<>>} \cup {<<f>> : f \in {InitGood[1]} \cup InitBad}
         \cup {ListWith(InitGood, n, b, bad) : b \in 0..n, bad \in InitBad}

MetricLists(n) ==
  {<<>>} \cup {<<f>> : f \in {MetricGood[1]} \cup MetricUnreadable \cup MetricOdd}
         \cup {ListWith(MetricGood, n, b, bad) :
                 b \in 0..n, bad \in MetricUnreadable \cup MetricOdd}

SaveFlags == {FALSE, TRUE}
Seeds == {1, 2}

\* Runs that differ in their resources and in how the chains are scheduled: the
\* data file is readable and the output directory is there; each phase is
\* either left out or as long as it can be.
ResourceArgs ==
  {[DefaultArgs EXCEPT !.num_chains = c, !.init_files = il, !.metric_files = ml,
                       !.metric_type = mt, !.num_warmup = w, !.num_samples = ns,
                       !.data_file = "data.json",
                       !.save_start_params = sf, !.save_diagnostics = sf,
                       !.save_metric = sf] :
     c \in 1..MaxChains, il \in UNION {InitLists(n) : n \in 1..MaxChains},
     ml \in UNION {MetricLists(n) : n \in 1..MaxChains},
     mt \in MetricTypes, w \in {0, MaxWarmup}, ns \in {0, MaxSamples}, sf \in SaveFlags}

\* Runs that differ in their surroundings: the data file, the output directory,
\* the output flags, with at most one file for all chains.
EnvironmentArgs ==
  {[DefaultArgs EXCEPT !.num_chains = c, !.init_files = il, !.metric_files = ml,
                       !.metric_type = mt, !.num_warmup = w, !.num_samples = ns,
                       !.data_file = d, !.random_seed = seed,
                       !.save_start_params = sf, !.save_diagnostics = sd,
                       !.save_metric = sm] :
     c \in 1..MaxChains, seed \in Seeds, il \in {<<>>, <<"init_missing.json">>},
     ml \in {<<>>, <<"metric_notpd.json">>},
     mt \in MetricTypes, w \in 0..MaxWarmup, ns \in 0..MaxSamples,
     d \in {"data.json", "data_missing.json"},
     sf \in SaveFlags, sd \in SaveFlags, sm \in SaveFlags}

Validated(S) == {a \in S : validate_hmc_arguments(a).ok}

InitResources ==
  /\ args \in Validated(ResourceArgs)
  /\ out_dir = "exists"

InitEnvironment ==
  /\ args \in Validated(EnvironmentArgs)
  /\ out_dir \in {"exists", "absent", "readonly"}

\* run_hmc is called with arguments that passed validate_hmc_arguments.
InitRun ==
  /\ entry = "run_hmc"
  /\ policy \in {"sequential", "parallel"}
  /\ g_model = FALSE
  /\ pc = "run_hmc"
  /\ Fresh

Init ==
  /\ InitResources \/ InitEnvironment
  /\ InitRun

Next == NextRun

Spec == Init /\ [][Next]_vars

\* The phase of a run, read off where run_hmc is.
RunState ==
  CASE pc \in {"run_hmc", "load_model", "outputs", "read_inits", "read_metrics"} -> "Constructed"
    [] pc = "load_samplers" -> "Initializing"
    [] pc = "run_chains" -> "Running"
    [] pc = "done" /\ ret = 0 -> "Completed"
    [] pc = "done" /\ ret # 0 -> "Failed"
    [] OTHER -> "Outside"

\* ------------------------------------------------------ the entry points
\* JSONFileValidator's check of one option value: whether it passes, and whether
\* the check got as far as constructing test_stream, the open of the file.
JSONFileValidator_ExistsOnly(str) ==
  IF str = "" THEN [ok |-> TRUE, opened |-> FALSE]
  ELSE [ok |-> FileKind(str) # "missing", opened |-> FALSE]

JSONFileValidator(str) ==
  IF str = "" THEN [ok |-> TRUE, opened |-> FALSE]
  ELSE IF FileKind(str) = "missing" THEN [ok |-> FALSE, opened |-> FALSE]
  ELSE IF FileKind(str) = "noperm" THEN [ok |-> FALSE, opened |-> TRUE]
  ELSE [ok |-> FirstChar(str) = "{", opened |-> TRUE]

\* The values the validators are run on, in the order the options are added:
\* --data, then each value of --inits, then each value of --metric.
Named(a) ==
  (IF a.data_file = "" THEN <<>> ELSE <<a.data_file>>) \o a.init_files \o a.metric_files

\* app.parse: every value from the k-th on is checked in turn; the first one
\* that does not pass raises CLI::ValidationError.
RECURSIVE app_parse(_, _, _)
app_parse(files, k, ops) ==
  IF k > Len(files) THEN [ok |-> TRUE, opens |-> ops]
  ELSE LET v == JSONFileValidator(files[k])
           after == IF v.opened
                      THEN Append(ops, [file |-> files[k], by |-> "validator", chain |-> 0])
                      ELSE ops
       IN IF v.ok THEN app_parse(files, k + 1, after)
          ELSE [ok |-> FALSE, opens |-> after]

\* The exit code of CLI::ValidationError, as text.
ValidationErrorCode == "105"

\* The exit code of CLI::ExtrasError, as text.
ExtrasErrorCode == "109"

\* The command line that asks for the arguments a holds options that
\* parse_hmc_args has not added to its app: --chains and --output-dir are
\* added by setup_inference_options, which it does not call.
Extras(a) == a.num_chains # 1 \/ a.output_dir # ""

\* parse_hmc_args that hands on arguments validate_hmc_arguments rejects.
parse_hmc_args_Unchecked(a) ==
  IF ~app_parse(Named(a), 1, <<>>).ok
    THEN [ok |-> FALSE, msg |-> <<"HMC argument ", "parsing failed", ": ", ValidationErrorCode>>]
  ELSE IF Extras(a)
    THEN [ok |-> FALSE, msg |-> <<"HMC argument ", "parsing failed", ": ", ExtrasErrorCode>>]
  ELSE [ok |-> TRUE, msg |-> validate_hmc_arguments(a).msg]

\* parse_hmc_args for the command line that asks for the arguments a: the
\* values that name files are checked, an option the app has not is an error,
\* and the arguments are handed on only if validate_hmc_arguments accepts them.
parse_hmc_args(a) ==
  IF ~app_parse(Named(a), 1, <<>>).ok
    THEN [ok |-> FALSE, msg |-> <<"HMC argument ", "parsing failed", ": ", ValidationErrorCode>>]
  ELSE IF Extras(a)
    THEN [ok |-> FALSE, msg |-> <<"HMC argument ", "parsing failed", ": ", ExtrasErrorCode>>]
  ELSE [ok |-> validate_hmc_arguments(a).ok, msg |-> validate_hmc_arguments(a).msg]

\* The status stan3_run_samplers derives from the message of a failed call.
run_samplers_status(msg) ==
  IF Contains(msg, "No model loaded") THEN "STAN3_ERROR_MODEL_LOAD"
  ELSE IF Contains(msg, "parsing failed") THEN "STAN3_ERROR_PARSING"
  ELSE IF Contains(msg, "Invalid argument") THEN "STAN3_ERROR_INVALID_ARGS"
  ELSE "STAN3_ERROR_SAMPLING"

\* The sizes of the buffer a caller hands over, counted in the pieces a message
\* is made of: none (or no buffer at all), room for the terminator only, room
\* for two pieces, room for every message.
BufferSizes == {0, 1, 3, 16}

Min(a, b) == IF a < b THEN a ELSE b

\* copy_error_message that copies as much as the buffer is long, terminator
\* forgotten.
copy_error_message_NoTerminator(error_msg, buf) ==
  IF buf.size > 0
    THEN [buf EXCEPT !.text = SubSeq(error_msg, 1, Min(Len(error_msg), buf.size))]
    ELSE buf

\* copy_error_message(error_msg, buffer, buffer_size): nothing without a buffer,
\* else the first min(length, buffer_size - 1) pieces.
copy_error_message(error_msg, buf) ==
  IF buf.size > 0
    THEN [buf EXCEPT !.text = SubSeq(error_msg, 1, Min(Len(error_msg), buf.size - 1))]
    ELSE buf

\* error_message[0] = '\0' on success, when there is a buffer.
clear_buffer(buf) == IF buf.size > 0 THEN [buf EXCEPT !.text = <<>>] ELSE buf

\* The failure branch of a C API call that leaves the last error as it was.
ApiFailure_KeepLast(fn, argv_ok, msg, status, buf) ==
  /\ g_last_error' = g_last_error
  /\ buffer' = copy_error_message(msg, buf)
  /\ exit_code' = status
  /\ calls' = Append(calls, [fn |-> fn, argv_ok |-> argv_ok, status |-> status, msg |-> msg,
                            thread |-> thread'])
  /\ pc' = "returned"

\* The failure branch of stan3_load_model and stan3_run_samplers: the message
\* becomes the last error and is copied to the caller's buffer.
ApiFailure(fn, argv_ok, msg, status, buf) ==
  /\ g_last_error' = msg
  /\ buffer' = copy_error_message(msg, buf)
  /\ exit_code' = status
  /\ calls' = Append(calls, [fn |-> fn, argv_ok |-> argv_ok, status |-> status, msg |-> msg,
                            thread |-> thread'])
  /\ pc' = "returned"

\* Their success branch: the last error is cleared, the buffer emptied.
ApiSuccess(fn, argv_ok, buf) ==
  /\ g_last_error' = <<>>
  /\ buffer' = clear_buffer(buf)
  /\ exit_code' = "STAN3_SUCCESS"
  /\ calls' = Append(calls, [fn |-> fn, argv_ok |-> argv_ok, status |-> "STAN3_SUCCESS",
                            msg |-> <<>>, thread |-> thread'])
  /\ pc' = "returned"

\* stan3_run_samplers(argc, argv, error_message, error_message_size) up to the
\* call of run_hmc, for the arguments a: a bad argc or argv, no model, or
\* arguments that do not pass, end the call.
RunSamplersCall(a, argv_ok, buf) ==
  IF ~argv_ok
    THEN /\ ApiFailure("run_samplers", FALSE, <<"Invalid arguments: argc < 0 or argv is NULL">>,
                       "STAN3_ERROR_INVALID_ARGS", buf)
         /\ UNCHANGED <<error_message, validation_passed, opens>>
  ELSE IF ~g_model
    THEN /\ error_message' = <<"No model loaded", ". Call stan3_load_model() first.">>
         /\ ApiFailure("run_samplers", TRUE, error_message',
                       run_samplers_status(error_message'), buf)
         /\ UNCHANGED <<validation_passed, opens>>
  ELSE /\ opens' = app_parse(Named(a), 1, <<>>).opens
       /\ validation_passed' =
            IF app_parse(Named(a), 1, <<>>).ok /\ ~Extras(a)
              THEN validate_hmc_arguments(a).ok ELSE validation_passed
       /\ IF parse_hmc_args(a).ok
            THEN /\ pc' = "run_hmc"
                 /\ buffer' = buf
                 /\ UNCHANGED <<error_message, exit_code, g_last_error, calls>>
            ELSE /\ error_message' = parse_hmc_args(a).msg
                 /\ ApiFailure("run_samplers", TRUE, error_message',
                               run_samplers_status(error_message'), buf)

\* One call of stan3_run_samplers with the arguments of this run.
CApiRunSamplers ==
  /\ pc = "entry"
  /\ entry = "capi"
  /\ UNCHANGED <<thread, nameVars, parses>>
  /\ \E argv_ok \in BOOLEAN, size \in BufferSizes :
       RunSamplersCall(args, argv_ok, [size |-> size, text |-> buffer.text])
  /\ UNCHANGED filenames
  /\ UNCHANGED <<args, entry, policy, g_model, out_dir>>
  /\ UNCHANGED runVars

\* stan3_run_samplers once run_hmc has returned.
CApiReturn ==
  /\ pc = "done"
  /\ entry \in {"capi", "session", "clients"}
  /\ UNCHANGED <<thread, nameVars, parses>>
  /\ IF ret # 0
       THEN /\ error_message' = <<"Sampling failed with exit code: ", to_string(ret)>>
            /\ ApiFailure("run_samplers", TRUE, error_message',
                          run_samplers_status(error_message'), buffer)
       ELSE /\ ApiSuccess("run_samplers", TRUE, buffer)
            /\ UNCHANGED error_message
  /\ UNCHANGED filenames
  /\ UNCHANGED <<args, entry, policy, g_model, out_dir, validation_passed>>
  /\ UNCHANGED runVars
  /\ UNCHANGED opens

\* finalize_hmc_arguments: an empty output directory becomes a temporary one,
\* created on the spot.
finalize_hmc_arguments(a) ==
  IF a.output_dir = "" THEN [a EXCEPT !.output_dir = "tmp"] ELSE a

\* main, lines 23-49: parse (a value that fails its validator ends the program
\* with the code of the parse error), validate, finalize, stop on a validation
\* error, else go on to the model and to run_hmc.
MainValidate ==
  /\ pc = "entry"
  /\ entry = "main"
  /\ opens' = app_parse(Named(args), 1, opens).opens
  /\ IF ~app_parse(Named(args), 1, opens).ok
       THEN /\ exit_code' = ValidationErrorCode
            /\ pc' = "returned"
            /\ UNCHANGED <<validation_passed, error_message, args, out_dir>>
       ELSE /\ validation_passed' = validate_hmc_arguments(args).ok
            /\ error_message' = validate_hmc_arguments(args).msg
            /\ args' = finalize_hmc_arguments(args)
            /\ out_dir' = IF args.output_dir = "" THEN "exists" ELSE out_dir
            /\ IF ~validation_passed'
                 THEN /\ exit_code' = "1"
                      /\ pc' = "returned"
                 ELSE /\ pc' = "run_hmc"
                      /\ UNCHANGED exit_code
  /\ UNCHANGED apiVars
  /\ UNCHANGED <<entry, policy, g_model>>
  /\ UNCHANGED runVars

\* main returns what run_hmc returned.
MainReturn ==
  /\ pc = "done"
  /\ entry = "main"
  /\ exit_code' = to_string(ret)
  /\ pc' = "returned"
  /\ UNCHANGED apiVars
  /\ UNCHANGED <<args, entry, policy, g_model, out_dir, validation_passed, error_message>>
  /\ UNCHANGED runVars
  /\ UNCHANGED opens

\* The lists a command line may name: up to one file more than there can be
\* chains, or one file that is not what it should be.
EntryInitLists ==
  {Prefix(InitGood, a) : a \in 0..(MaxChains + 1)} \cup {<<f>> : f \in InitBad}

EntryMetricLists ==
  {Prefix(MetricGood, m) : m \in 0..(MaxChains + 1)}
    \cup {<<f>> : f \in {"metric_noperm.json", "metric_malformed.json"}}

EntryArgs ==
  {[DefaultArgs EXCEPT !.num_chains = c, !.init_files = il, !.metric_files = ml,
                       !.thin = t, !.num_samples = ns, !.data_file = "data.json",
                       !.output_dir = o] :
     c \in 1..MaxChains, il \in EntryInitLists, ml \in EntryMetricLists,
     t \in 1..MaxThin, ns \in 0..MaxSamples, o \in {"", "out"}}

InitEntry ==
  /\ args \in EntryArgs
  /\ entry \in {"capi", "main"}
  /\ policy \in {"sequential", "parallel"}
  /\ g_model \in BOOLEAN
  /\ out_dir = "exists"
  /\ pc = "entry"
  /\ Fresh

NextEntry ==
  \/ CApiRunSamplers
  \/ CApiReturn
  \/ MainValidate
  \/ MainReturn
  \/ NextRun

SpecEntry == InitEntry /\ [][NextEntry]_vars

\* ------------------------------------------------- per-chain resources
\* The context chain i (counted from 0) is to get from a list of files.
ContextFor(list, i) ==
  IF Len(list) = 0 THEN EmptyContext
  ELSE IF Len(list) = 1 THEN [kind |-> "json", file |-> list[1]]
  ELSE [kind |-> "json", file |-> list[i + 1]]

\* C2: for every chain count c and every chain index i in [0, c), the context
\* run_hmc reads for chain i (get_init_file_for_chain or
\* get_metric_file_for_chain, then read_json_data) is the empty context when the
\* list is empty, the context of list[0] when the list has one entry, and the
\* context of list[i] when it has c entries.
C2_Resolution ==
  /\ \A k \in 1..Len(init_contexts) :
       Content(init_contexts[k]) = ContextFor(args.init_files, k - 1)
  /\ \A k \in 1..Len(metric_contexts) :
       Content(metric_contexts[k]) = ContextFor(args.metric_files, k - 1)

C2_Witness ==
  /\ args.num_chains = 3
  /\ Len(args.metric_files) = 3
  /\ Len(args.init_files) = 1
  /\ Len(init_contexts) = 3
  /\ Len(metric_contexts) = 3
  /\ init_contexts[3].file = args.init_files[1]
  /\ metric_contexts[3].file = args.metric_files[3]
  /\ metric_contexts[3].file # metric_contexts[1].file

\* ------------------------------------------------- metric and init files
ChainIdle(k) == chain[k].status = "idle" /\ chain[k].iters = 0

\* Some chain's metric file is absent, cannot be opened or is not JSON.
SomeMetricFileUnreadable ==
  \E i \in 0..(args.num_chains - 1) :
    /\ get_metric_file_for_chain(args, i) # ""
    /\ FileKind(get_metric_file_for_chain(args, i)) # "json"

\* Some chain's init file is absent or is not JSON.
SomeInitFileUnreadable ==
  \E i \in 0..(args.num_chains - 1) :
    /\ get_init_file_for_chain(args, i) # ""
    /\ FileKind(get_init_file_for_chain(args, i)) # "json"

\* C3: under DIAG_E or DENSE_E, a run in which the metric file of some chain is
\* absent, unreadable or malformed, and in which nothing else goes wrong, ends
\* with success status: the chains whose file cannot be read run with the
\* identity metric, the others with the metric they were given, and a message is
\* logged for each substitution.
C3_MetricFileNeverFatal ==
  (/\ pc = "done"
   /\ args.metric_type \in {"DIAG_E", "DENSE_E"}
   /\ model = "params"
   /\ SomeMetricFileUnreadable
   /\ err_msg.stage \in {"none", "metric_read"}) =>
     /\ ret = 0
     /\ Len(config) = args.num_chains
     /\ \A k \in 1..Len(config) :
          LET f == get_metric_file_for_chain(args, k - 1)
          IN IF FileKind(f) # "json"
               THEN /\ config[k].sampler.metric = Identity
                    /\ \E l \in log : l.chain = k
               ELSE config[k].sampler.metric = [kind |-> "supplied", file |-> f]

C5_ConfigErrorStopsRun ==
  ~validation_passed =>
    /\ pc = "returned"
    /\ exit_code \notin {"", "0", "STAN3_SUCCESS"}
    /\ error_message # <<>>
    /\ ret = -1
    /\ model = "none"
    /\ writers = <<>>
    /\ init_contexts = <<>>
    /\ metric_contexts = <<>>
    /\ config = <<>>
    /\ touched = {}
    /\ \A k \in Chains : ChainIdle(k)

C5_Witness ==
  /\ entry = "capi"
  /\ g_model
  /\ pc = "returned"
  /\ ~validation_passed
  /\ Contains(error_message, "thin")
  /\ Contains(error_message, "exceed")
  /\ exit_code = "STAN3_ERROR_SAMPLING"

\* ------------------------------------------------------------- scheduling
\* C6: under the sequential policy with N > 1 chains, the chains start in index
\* order, one at a time, chain i+1 only after chain i has run all its
\* iterations; when chain k fails, its exception is the one rethrown to
\* run_hmc, no chain after k ever starts and the run fails.
C6_Sequential ==
  (policy = "sequential" /\ args.num_chains > 1) =>
    /\ Cardinality({k \in Chains : Running(k)}) <= 1
    /\ \A k \in Chains : chain[k].status # "idle" =>
         \A j \in Chains : j < k =>
           chain[j].status = "done" /\ chain[j].iters = Iterations
    /\ \A k \in Chains : chain[k].status = "failed" =>
         /\ \A j \in Chains : j > k => ChainIdle(j)
         /\ first_error = k
         /\ pc \in {"run_chains", "done"}
         /\ pc = "done" => ret = 1 /\ err_msg.stage = "chain" /\ err_msg.chain = k

C6_Witness ==
  /\ policy = "sequential"
  /\ args.num_chains = 3
  /\ pc = "done"
  /\ ret = 1
  /\ chain[1].status = "done"
  /\ chain[2].status = "failed"
  /\ ChainIdle(3)
  /\ err_msg.chain = 2

C8_JoinBarrier ==
  pc # "run_chains" =>
    \A k \in Chains :
      /\ ~Running(k)
      /\ chain[k].status = "done" => chain[k].iters = Iterations
      /\ chain[k].status = "failed" => Contains(raised, k)

C8_Witness ==
  /\ policy = "parallel"
  /\ args.num_chains = 3
  /\ pc = "done"
  /\ chain[1].status = "failed"
  /\ chain[2].status = "done"
  /\ ChainIdle(3)
  /\ raised = <<1>>

\* --------------------------------------------------------------- isolation
\* An element of touched is <<chain index, <<object, index, mode>>>>.
PerChainObjects == {"samplers", "rngs", "init_params", "writers"}
Object(t) == <<t[2][1], t[2][2]>>
Written(t) == t[2][3] = "w"

\* C9 as stated: chain i reads and writes only samplers[i], rngs[i],
\* init_params[i] and writers[i]; no object that some chain writes, of any kind,
\* is accessed by a different chain; the model and the run configuration are
\* never written.
C9_NoSharedWrittenObject ==
  /\ \A t \in touched : t[2][1] \in PerChainObjects => t[2][2] = t[1]
  /\ \A t \in touched : \A u \in touched :
       (Written(t) /\ Object(t) = Object(u)) => t[1] = u[1]
  /\ \A t \in touched : t[2][1] \in {"model", "args"} => ~Written(t)

\* C9 as amended: of the per-chain objects chain i reads and writes only
\* samplers[i], rngs[i], init_params[i] and writers[i], so no sampler, RNG,
\* initial vector or sink is accessed by two chains; everything else a chain
\* touches is the model or the run configuration, which are only read, or the
\* runner's interrupt callback or its logger, which all chains share, and the
\* logger is written by every chain.
C9_Isolation ==
  /\ \A t \in touched : t[2][1] \in PerChainObjects => t[2][2] = t[1]
  /\ \A t \in touched :
       t[2][1] \in PerChainObjects \cup {"model", "args", "interrupt", "logger"}
  /\ \A t \in touched : t[2][1] \in {"model", "args"} => ~Written(t)
  /\ \A k \in Chains : chain[k].status # "idle" =>
       <<k - 1, <<"logger", 0, "w">>>> \in touched

\* Two chains are executing at the same time.
C9_Witness ==
  /\ args.num_chains >= 2
  /\ policy = "parallel"
  /\ pc = "run_chains"
  /\ Running(1)
  /\ Running(2)
  /\ <<1, <<"rngs", 1, "w">>>> \in touched
  /\ <<0, <<"rngs", 0, "w">>>> \in touched

\* ---------------------------------------------------------------- lifecycle
SinksReleased ==
  /\ Len(writers) = args.num_chains
  /\ \A k \in 1..Len(writers) :
       /\ writers[k].sample = "closed"
       /\ writers[k].start_params \in {"closed", "absent"}
       /\ writers[k].diagnostics \in {"closed", "absent"}
       /\ writers[k].metric \in {"closed", "absent"}

\* C10, its statement about success: run_hmc returns 0 (the run is Completed)
\* only if every one of the N chains has executed its num_warmup + num_samples
\* iterations and all its sinks have been released.
C10_SuccessMeansAllChainsRan ==
  RunState = "Completed" =>
    /\ \A k \in Chains : chain[k].status = "done" /\ chain[k].iters = Iterations
    /\ SinksReleased

\* ----------------------------------------------------------- RNG streams
\* The RNG of the chain with ordinal k when its sampling starts, as a function of
\* the seed, k and the chain's own init context.
RngAtStart(seed, k, init_context) ==
  [seed |-> seed, stream |-> k, draws |-> <<[by |-> k, init |-> init_context]>>]

\* C11: the RNG of chain i is the stream create_rng(seed, i + 1), advanced
\* before sampling only by chain i's own initialization: its state when
\* sampling starts is fixed by the seed, i and chain i's own init context,
\* whatever the chain count, the other chains and the scheduling policy, and
\* while the chains run no chain touches the RNG of another.
C11_RngStreams ==
  /\ \A k \in 1..Len(config) :
       /\ config[k].rng = RngAtStart(args.random_seed, k, ContextFor(args.init_files, k - 1))
       /\ config[k].sampler.rng = config[k].rng
  /\ \A t \in touched : t[2][1] = "rngs" => t[2][2] = t[1]
  /\ (\E k \in Chains : ~ChainIdle(k)) => Len(config) = args.num_chains

C11_Witness ==
  /\ args.num_chains = 3
  /\ policy = "parallel"
  /\ pc = "run_chains"
  /\ Running(3)
  /\ ChainIdle(1)
  /\ config[3].rng.stream = 3
  /\ config[3].rng.draws = <<[by |-> 3, init |-> Content(init_contexts[3])]>>
  /\ config[1].rng.stream = 1

\* ------------------------------------------------ order of initialization
\* C12: load_samplers initializes the chains one after the other in increasing
\* index order (the k-th chain it sets up is the chain with ordinal k, with its
\* RNG, initial point, sampler and metric), a failure at chain k comes after
\* chains 1..k-1 were set up and before any later one, and under both policies
\* no chain samples before all N chains are initialized.
C12_InitOrder ==
  /\ \A k \in 1..Len(config) :
       /\ config[k].rng.stream = k
       /\ config[k].rng.draws[1].by = k
       /\ config[k].init_params.context = init_contexts[k]
       /\ config[k].sampler.rng.stream = k
  /\ err_msg.stage \in {"initialize", "metric_check"} => err_msg.chain = Len(config) + 1
  /\ pc = "load_samplers" => Len(config) < args.num_chains
  /\ \A k \in Chains : ~ChainIdle(k) =>
       /\ pc \in {"run_chains", "done"}
       /\ Len(config) = args.num_chains

C12_Witness ==
  /\ args.num_chains = 3
  /\ policy = "sequential"
  /\ pc = "run_chains"
  /\ Running(1)
  /\ Len(config) = 3
  /\ config[2].rng.stream = 2
  /\ config[3].rng.stream = 3

\* ------------------------------------------------------------- sink lifetime
SinkStates(ws) ==
  UNION {{ws[k].sample, ws[k].start_params, ws[k].diagnostics, ws[k].metric} :
           k \in 1..Len(ws)}

\* C13: every sink opened during a run is released exactly once, not before
\* the runner is back (so not while its chain runs), and is released when
\* run_hmc returns, on every exit path: success, the return for a model
\* without parameters, a resource error, an initialization error, a chain error.
C13_SinksReleasedOnce ==
  /\ "released_twice" \notin SinkStates(writers)
  /\ "closed" \in SinkStates(writers) =>
       pc = "done" /\ \A k \in Chains : ~Running(k)
  /\ pc = "done" => "open" \notin SinkStates(writers)
  /\ (pc \notin {"run_hmc", "load_model", "outputs", "done"}) =>
       /\ Len(writers) = args.num_chains
       /\ \A k \in 1..Len(writers) : writers[k].sample = "open"

\* A chain threw: the sinks of all three chains, optional ones included, are closed.
C13_Witness ==
  /\ args.num_chains = 3
  /\ pc = "done"
  /\ err_msg.stage = "chain"
  /\ Len(writers) = 3
  /\ \A k \in 1..3 : writers[k].sample = "closed" /\ writers[k].metric = "closed"
  /\ chain[1].status = "done"

\* C14: all sinks of all chains are open before any init or metric file is
\* read, any chain is initialized or any chain samples; if a sink that has to
\* be created cannot be opened for some chain, run_hmc returns failure and no
\* chain is initialized or run.
C14_SinksFirst ==
  /\ (init_contexts # <<>> \/ metric_contexts # <<>> \/ config # <<>>
        \/ \E k \in Chains : ~ChainIdle(k)) =>
       /\ Len(writers) = args.num_chains
       /\ \A k \in 1..Len(writers) :
            /\ writers[k].sample # "absent"
            /\ args.save_start_params => writers[k].start_params # "absent"
            /\ args.save_diagnostics => writers[k].diagnostics # "absent"
            /\ args.save_metric => writers[k].metric # "absent"
  /\ err_msg.stage = "writers" =>
       /\ pc = "done"
       /\ ret = 1
       /\ Len(writers) < args.num_chains
       /\ init_contexts = <<>> /\ metric_contexts = <<>> /\ config = <<>>
       /\ \A k \in Chains : ChainIdle(k)
  /\ (out_dir # "exists" /\ pc \notin {"run_hmc", "load_model", "outputs"}) =>
       pc = "done" /\ ret = 1 /\ config = <<>>

\* The sinks of chain 3 of 3 did not open: those of chains 1 and 2 were closed
\* again and nothing else happened.
C14_Witness ==
  /\ args.num_chains = 3
  /\ pc = "done"
  /\ ret = 1
  /\ err_msg.stage = "writers"
  /\ err_msg.chain = 3
  /\ Len(writers) = 2
  /\ writers[2].sample = "closed"
  /\ config = <<>>

\* -------------------------------------------------- the sink factory alone
SinkArgs ==
  {[DefaultArgs EXCEPT !.num_chains = c, !.save_start_params = sf,
                       !.save_diagnostics = sd, !.save_metric = sm,
                       !.save_warmup = sw] :
     c \in 1..MaxChains, sf \in SaveFlags, sd \in SaveFlags, sm \in SaveFlags,
     sw \in SaveFlags}

InitSinks ==
  /\ args \in SinkArgs
  /\ entry = "writers"
  /\ policy = "sequential"
  /\ g_model = FALSE
  /\ out_dir \in {"exists", "absent", "readonly"}
  /\ pc = "entry"
  /\ Fresh

\* A call of create_hmc_nuts_multi_chain_writers(args, model_name): the vector
\* it returns, or the exception of the sink that did not open.
CreateMultiChainWriters ==
  /\ pc = "entry"
  /\ entry = "writers"
  /\ out_dir' = ensure_output_directory(args, out_dir)
  /\ \E fail_at \in 0..args.num_chains :
       /\ out_dir' # "exists" => fail_at = 1
       /\ IF OpenFails(out_dir', fail_at)
            THEN /\ pc' = "threw"
                 /\ err_msg' = [stage |-> "writers", chain |-> fail_at,
                                what |-> <<"Cannot open output file: ">>]
                 /\ UNCHANGED writers
            ELSE /\ pc' = "created"
                 /\ writers' = create_hmc_nuts_multi_chain_writers(args)
                 /\ UNCHANGED err_msg
  /\ UNCHANGED apiVars
  /\ UNCHANGED <<args, entry, policy, g_model, validation_passed, error_message,
                 model, init_contexts, metric_contexts, config, chain, first_error,
                 raised, touched, log, ret, exit_code, opens>>

NextSinks == CreateMultiChainWriters

SpecSinks == InitSinks /\ [][NextSinks]_vars

Present(sink) == sink # "absent"

\* C15: for every combination of the save flags and every chain count N,
\* create_hmc_nuts_multi_chain_writers returns exactly N sink sets, for the
\* ordinals 1..N in order; in each the sample sink is present and each of
\* start_params, diagnostics and metric is present iff its own flag is set,
\* whatever save_warmup is: one metric file per chain iff save_metric is set.
C15_SinkComposition ==
  pc = "created" =>
    /\ Len(writers) = args.num_chains
    /\ \A k \in 1..Len(writers) :
         /\ writers[k].chain_id = k
         /\ Present(writers[k].sample)
         /\ Present(writers[k].start_params) <=> args.save_start_params
         /\ Present(writers[k].diagnostics) <=> args.save_diagnostics
         /\ Present(writers[k].metric) <=> args.save_metric
    /\ Cardinality({k \in 1..Len(writers) : Present(writers[k].metric)})
         = IF args.save_metric THEN args.num_chains ELSE 0

C15_Witness ==
  /\ pc = "created"
  /\ args.num_chains = 3
  /\ args.save_warmup
  /\ args.save_metric
  /\ ~args.save_diagnostics
  /\ Len(writers) = 3
  /\ writers[3].metric = "open"
  /\ writers[3].diagnostics = "absent"

CardinalityError ==
  /\ pc = "returned"
  /\ ~validation_passed
  /\ Contains(error_message, " must specify either ")

\* C18 as stated: a cardinality error of the init or metric list is raised
\* before any file named in the init or metric list is opened, on every path
\* from the argument parser to the run.
C18_ErrorBeforeAnyOpen ==
  CardinalityError =>
    \A n \in 1..Len(opens) :
      opens[n].file \notin Range(args.init_files) \cup Range(args.metric_files)

\* C18 as amended: a cardinality error of the init or metric list is raised
\* before run_hmc is called, so before any file named in the init or metric
\* list is parsed; by then the option validators of the parser have opened
\* every named data, init and metric file once to look at its first character.
C18_ErrorBeforeAnyParse ==
  CardinalityError =>
    /\ ret = -1
    /\ init_contexts = <<>>
    /\ metric_contexts = <<>>
    /\ \A n \in 1..Len(opens) : opens[n].by = "validator"
    /\ Len(opens) = Len(Named(args))
    /\ \A n \in 1..Len(opens) : opens[n].file = Named(args)[n]

\* Through the C API, whose runs have one chain: three metric files.
C18_Witness ==
  /\ CardinalityError
  /\ entry = "capi"
  /\ args.num_chains = 1
  /\ Len(args.metric_files) = 3
  /\ Contains(error_message, "--metric")
  /\ \E n \in 1..Len(opens) : opens[n].file = args.metric_files[3]

\* ------------------------------------------------------ metric validation
\* The inverse metric chain k (counted from 1) is given fails the check of
\* validate_diag_inv_metric / validate_dense_inv_metric.
FailsMetricCheck(k) ==
  /\ args.metric_type \in {"DIAG_E", "DENSE_E"}
  /\ MetricContent(get_metric_file_for_chain(args, k - 1)) = "not_pd"

\* C19: under DIAG_E or DENSE_E a metric that fails the shape /
\* positive-definiteness check is not replaced by the identity: load_samplers
\* throws at that chain, the run fails, no sampler is kept for the chain and no
\* chain executes; chains execute only when every chain's metric passed.
C19_MetricCheckFatal ==
  /\ err_msg.stage = "metric_check" =>
       /\ FailsMetricCheck(err_msg.chain)
       /\ Len(config) = err_msg.chain - 1
       /\ pc = "done"
       /\ ret = 1
       /\ touched = {}
       /\ \A k \in Chains : ChainIdle(k)
  /\ \A k \in 1..Len(config) :
       /\ ~FailsMetricCheck(k)
       /\ config[k].sampler.metric.kind = "identity" =>
            ~InvMetricReadable(metric_contexts[k])
  /\ (\E k \in Chains : ~ChainIdle(k)) => \A k \in Chains : ~FailsMetricCheck(k)

\* The metric file of the second of two chains is not positive definite: the
\* first chain was configured, the second failed the check, none ran.
C19_Witness ==
  /\ args.num_chains >= 2
  /\ err_msg.stage = "metric_check"
  /\ err_msg.chain = 2
  /\ FailsMetricCheck(2)
  /\ Len(config) = 1
  /\ pc = "done"
  /\ ret = 1

\* ------------------------------------------------------- the unit metric
\* C20: under UNIT_E no metric file is opened or parsed at any point of a run,
\* whatever the metric list names, and no run ends on a metric file.
C20_UnitReadsNoMetric ==
  args.metric_type = "UNIT_E" =>
    /\ \A n \in 1..Len(opens) : opens[n].by # "metric"
    /\ \A k \in 1..Len(metric_contexts) : metric_contexts[k].kind = "empty"
    /\ err_msg.stage # "metric_read"

\* ---------------------------------------------------- windowed adaptation
\* C21: load_samplers calls set_window_params once for each chain it
\* configures when the metric type is DIAG_E or DENSE_E and for no chain when
\* it is UNIT_E; every chain is configured in exactly one turn of the loop, and
\* chains run only when all of them have been.
C21_WindowedByStrategy ==
  /\ Len(config) <= args.num_chains
  /\ \A k \in 1..Len(config) :
       config[k].sampler.windowed = (args.metric_type \in {"DIAG_E", "DENSE_E"})
  /\ pc = "run_chains" => Len(config) = args.num_chains
  /\ (\E k \in Chains : ~ChainIdle(k)) => Len(config) = args.num_chains

\* Three unit-metric chains are configured, none with window parameters.
C21_Witness ==
  /\ args.num_chains = 3
  /\ args.metric_type = "UNIT_E"
  /\ pc = "run_chains"
  /\ Len(config) = 3
  /\ \A k \in 1..3 : ~config[k].sampler.windowed

\* ------------------------------------------------------- chain ordinals
\* C22: the chain with internal index i (the element i + 1 of the sequences
\* here) is known everywhere by the ordinal i + 1: it is the stream id of its
\* RNG, the chain id handed to its sampler run, the chain number of its sink set
\* and the chain number in the error message of a failed init or metric read;
\* the ordinals of an N-chain run are 1..N, each once.
C22_Ordinals ==
  /\ \A k \in 1..Len(writers) : writers[k].chain_id = k
  /\ \A k \in 1..Len(config) :
       config[k].rng.stream = k /\ config[k].sampler.rng.stream = k
  /\ \A k \in Chains : chain[k].status # "idle" => chain[k].chain_id = k
  /\ err_msg.stage = "init_read" =>
       err_msg.chain = Len(init_contexts) + 1 /\ err_msg.what[2] = to_string(err_msg.chain)
  /\ err_msg.stage = "metric_read" =>
       err_msg.chain = Len(metric_contexts) + 1 /\ err_msg.what[2] = to_string(err_msg.chain)
  /\ pc = "run_chains" =>
       /\ {writers[k].chain_id : k \in 1..Len(writers)} = Chains
       /\ {config[k].rng.stream : k \in 1..Len(config)} = Chains
       /\ Len(writers) = args.num_chains
       /\ Len(config) = args.num_chains

\* Three chains have run under the ordinals 1, 2, 3.
C22_Witness ==
  /\ args.num_chains = 3
  /\ pc = "run_chains"
  /\ \A k \in 1..3 : chain[k].status = "done" /\ chain[k].chain_id = k
  /\ <<writers[1].chain_id, writers[2].chain_id, writers[3].chain_id>> = <<1, 2, 3>>

\* ------------------------------------------------------ start parameters
\* C23: for every chain whose start_params sink is present, the initial
\* parameter vector is written to that sink when load_samplers initializes the
\* chain, which is before the chain's first iteration; for every chain whose
\* start_params sink is absent the write goes to the dummy writer and there is
\* no start_params file for the chain.
C23_StartParams ==
  /\ \A k \in 1..Len(config) :
       /\ writers[k].start_params # "absent" =>
            config[k].init_params.written_to = "start_params"
       /\ writers[k].start_params = "absent" =>
            config[k].init_params.written_to = "dummy"
  /\ \A k \in Chains : ~ChainIdle(k) => k <= Len(config)
  /\ \A k \in 1..Len(writers) :
       (writers[k].start_params = "absent") = ~args.save_start_params

\* The second of two chains, with a start_params sink, has run.
C23_Witness ==
  /\ args.num_chains = 2
  /\ args.save_start_params
  /\ pc = "run_chains"
  /\ chain[2].status = "done"
  /\ writers[2].start_params = "open"
  /\ config[2].init_params.written_to = "start_params"

\* ------------------------------------------------------ output file names
\* generate_filename without the kind of content.
generate_filename_NoType(model_name, timestamp, chain_id, data_type, extension) ==
  model_name \o "_" \o timestamp \o "_chain" \o to_string(chain_id) \o extension

\* generate_filename(model_name, timestamp, chain_id, data_type, extension)
generate_filename(model_name, timestamp, chain_id, data_type, extension) ==
  model_name \o "_" \o timestamp \o "_chain" \o to_string(chain_id)
    \o "_" \o data_type \o extension

\* Values of generate_timestamp, format YYYYMMDD_HHMMSS: two seconds of one
\* day and a second of another.
Timestamps == {"20250522_143000", "20250522_143001", "20251231_235959"}

\* Model names, the empty one among them.
ModelNames == {"test_model", ""}

\* The kinds of content the sink factory asks names for, each with its extension.
DataTypes ==
  {[data_type |-> "sample", extension |-> ".csv"],
   [data_type |-> "start_params", extension |-> ".csv"],
   [data_type |-> "param_grads", extension |-> ".csv"],
   [data_type |-> "metric", extension |-> ".json"]}

\* Chain numbers of one and of two digits, 0 among them.
FilenameOrdinals == 0..(MaxChains + 9)

InitFilename ==
  /\ args = DefaultArgs
  /\ entry = "filename"
  /\ policy = "sequential"
  /\ g_model = FALSE
  /\ out_dir = "exists"
  /\ pc = "entry"
  /\ Fresh

\* Two calls of generate_filename, one after the other.
GenerateFilename ==
  /\ pc = "entry"
  /\ entry = "filename"
  /\ Len(filenames) < 2
  /\ \E m \in ModelNames, ts \in Timestamps, c \in FilenameOrdinals, dt \in DataTypes :
       filenames' = Append(filenames,
         [model_name |-> m, timestamp |-> ts, chain_id |-> c,
          data_type |-> dt.data_type, extension |-> dt.extension,
          name |-> generate_filename(m, ts, c, dt.data_type, dt.extension)])
  /\ UNCHANGED <<args, entry, policy, g_model, out_dir, pc, validation_passed,
                 error_message, opens, g_last_error, buffer, calls, exit_code,
                 thread, nameVars, parses>>
  /\ UNCHANGED runVars

NextFilename == GenerateFilename

SpecFilename == InitFilename /\ [][NextFilename]_vars

\* C24: generate_filename returns model + "_" + timestamp + "_chain" + ordinal
\* + "_" + kind + extension; for one model name, two names are equal only if
\* timestamp, ordinal and kind are equal: names of distinct chains, of distinct
\* kinds, or of runs with different timestamps never collide.
C24_Filenames ==
  /\ \A i \in 1..Len(filenames) :
       LET f == filenames[i]
       IN /\ f.name = f.model_name \o "_" \o f.timestamp \o "_chain"
                        \o ToString(f.chain_id) \o "_" \o f.data_type \o f.extension
          /\ (f.model_name = "test_model" /\ f.timestamp = "20250522_143000"
                /\ f.chain_id = 2 /\ f.data_type = "sample") =>
               f.name = "test_model_20250522_143000_chain2_sample.csv"
          /\ (f.model_name = "" /\ f.timestamp = "20250522_143000"
                /\ f.chain_id = 0 /\ f.data_type = "sample") =>
               f.name = "_20250522_143000_chain0_sample.csv"
  /\ \A i \in 1..Len(filenames) : \A j \in 1..Len(filenames) :
       (filenames[i].model_name = filenames[j].model_name
          /\ filenames[i].name = filenames[j].name) =>
         /\ filenames[i].timestamp = filenames[j].timestamp
         /\ filenames[i].chain_id = filenames[j].chain_id
         /\ filenames[i].data_type = filenames[j].data_type

\* The names of chain 1 and chain 11 of one run, same kind: they differ.
C24_Witness ==
  /\ Len(filenames) = 2
  /\ filenames[1].model_name = filenames[2].model_name
  /\ filenames[1].timestamp = filenames[2].timestamp
  /\ filenames[1].data_type = filenames[2].data_type
  /\ filenames[1].chain_id = 1
  /\ filenames[2].chain_id = 11
  /\ filenames[1].name # filenames[2].name

\* ------------------------------------------------------ error propagation
\* C25: every fatal error of a run reaches the caller of the entry point as a
\* failure status together with the descriptive message built where the error
\* was detected; after stan3_run_samplers the caller's buffer holds that
\* message (as much of it as fits) and it is the last error.
C25_ErrorReachesCaller ==
  (pc = "returned" /\ err_msg.stage # "none") =>
    /\ exit_code \notin {"", "0", "STAN3_SUCCESS"}
    /\ entry = "capi" =>
         /\ g_last_error = err_msg.what
         /\ buffer.text = copy_error_message(err_msg.what, buffer).text

\* ------------------------------------------------------- thin and samples
\* The entry point got as far as validate_hmc_arguments: it was called with
\* usable arguments, with a model where one is needed, and every named file
\* passed its validator.
ValidationReached ==
  /\ pc # "entry"
  /\ exit_code \notin {"STAN3_ERROR_MODEL_LOAD", "STAN3_ERROR_PARSING",
                       "STAN3_ERROR_INVALID_ARGS", ValidationErrorCode}

\* What the thin check leaves behind when it fails: the call is over, its message
\* names thin and says exceed, and nothing of a run has happened.
ThinErrorRaised ==
  /\ ~validation_passed
  /\ pc = "returned"
  /\ Contains(error_message, "thin")
  /\ Contains(error_message, "exceed")
  /\ ret = -1
  /\ config = <<>>
  /\ \A k \in Chains : ChainIdle(k)

\* C26 as stated: whenever thin > num_samples, validation fails with an error
\* whose message contains "thin" and "exceed", before any chain is initialized.
C26_ThinAboveSamples ==
  (ValidationReached /\ args.thin > args.num_samples) => ThinErrorRaised

\* C26 as amended: whenever num_samples > 0 and thin > num_samples, validation
\* fails with an error whose message contains "thin" and "exceed", before any
\* chain is initialized.
C26_ThinAbovePositiveSamples ==
  (ValidationReached /\ args.num_samples > 0 /\ args.thin > args.num_samples) =>
    ThinErrorRaised

C26_Witness ==
  /\ entry = "main"
  /\ args.thin = 2
  /\ args.num_samples = 1
  /\ ThinErrorRaised
  /\ exit_code = "1"

\* C27: with list lengths that are valid, validate_hmc_arguments accepts
\* thin = num_samples, and accepts thin = 1 whatever num_samples is, 0 included.
C27_ThinBoundary ==
  (/\ pc = "validated"
   /\ Accepted(Len(args.init_files), args.num_chains)
   /\ Accepted(Len(args.metric_files), args.num_chains)
   /\ (args.thin = args.num_samples \/ args.thin = 1)) =>
    (validation_passed /\ error_message = <<>>)

C27_Witness ==
  /\ pc = "validated"
  /\ args.thin = 2
  /\ args.num_samples = 2
  /\ Len(args.init_files) = args.num_chains
  /\ validation_passed

\* The three constraints validate_hmc_arguments checks.
ThinViolated == args.num_samples > 0 /\ args.thin > args.num_samples
InitsViolated == ~Accepted(Len(args.init_files), args.num_chains)
MetricViolated == ~Accepted(Len(args.metric_files), args.num_chains)

\* The options the message speaks of.
Reported == {o \in {"thin", "--inits", "--metric"} : Contains(error_message, o)}

\* C28: validate_hmc_arguments reports one error only, the first violated
\* constraint in the order thin, init list length, metric list length; a thin
\* violation is the one reported whenever there is one.
C28_FirstErrorOnly ==
  pc = "validated" =>
    /\ validation_passed = ~(ThinViolated \/ InitsViolated \/ MetricViolated)
    /\ Reported = IF ThinViolated THEN {"thin"}
                  ELSE IF InitsViolated THEN {"--inits"}
                  ELSE IF MetricViolated THEN {"--metric"}
                  ELSE {}

\* All three constraints are violated and the message is the one about thin.
C28_Witness ==
  /\ pc = "validated"
  /\ ThinViolated
  /\ InitsViolated
  /\ MetricViolated
  /\ Reported = {"thin"}

\* ------------------------------------------------------ a C API session
\* parse_model_args: --data goes through its validator.
parse_model_args(data_file) ==
  IF JSONFileValidator(data_file).ok THEN [ok |-> TRUE, msg |-> <<>>]
  ELSE [ok |-> FALSE,
        msg |-> <<"Model argument ", "parsing failed", ": ", ValidationErrorCode>>]

\* load_model_impl that stores the model before it knows new_model went well.
load_model_impl_StoresEarly(data_file, new_model_ok) ==
  IF ~parse_model_args(data_file).ok
    THEN [ok |-> FALSE, msg |-> parse_model_args(data_file).msg, stored |-> FALSE]
  ELSE IF ~read_json_data(data_file).ok
    THEN [ok |-> FALSE, stored |-> FALSE,
          msg |-> <<"Invalid argument", ": ", "Error reading input data, ",
                    read_json_data(data_file).what>>]
  ELSE IF ~new_model_ok
    THEN [ok |-> FALSE, stored |-> TRUE,
          msg |-> <<"Runtime error: ", "Error in new_model: ">>]
  ELSE [ok |-> TRUE, msg |-> <<>>, stored |-> TRUE]

\* load_model_impl that takes hold of the model object before load_model has
\* read the data, and keeps it when the read throws.
load_model_impl_StoresUnread(data_file, new_model_ok) ==
  IF ~parse_model_args(data_file).ok
    THEN [ok |-> FALSE, msg |-> parse_model_args(data_file).msg, stored |-> FALSE]
  ELSE IF ~read_json_data(data_file).ok
    THEN [ok |-> FALSE, stored |-> TRUE,
          msg |-> <<"Invalid argument", ": ", "Error reading input data, ",
                    read_json_data(data_file).what>>]
  ELSE IF ~new_model_ok
    THEN [ok |-> FALSE, stored |-> FALSE,
          msg |-> <<"Runtime error: ", "Error in new_model: ">>]
  ELSE [ok |-> TRUE, msg |-> <<>>, stored |-> TRUE]

\* load_model_impl: parse the arguments, read the data (load_model throws
\* invalid_argument when it cannot), build the model (runtime_error when
\* new_model left a message); g_model is assigned only after all of that.
load_model_impl(data_file, new_model_ok) ==
  IF ~parse_model_args(data_file).ok
    THEN [ok |-> FALSE, msg |-> parse_model_args(data_file).msg, stored |-> FALSE]
  ELSE IF ~read_json_data(data_file).ok
    THEN [ok |-> FALSE, stored |-> FALSE,
          msg |-> <<"Invalid argument", ": ", "Error reading input data, ",
                    read_json_data(data_file).what>>]
  ELSE IF ~new_model_ok
    THEN [ok |-> FALSE, stored |-> FALSE,
          msg |-> <<"Runtime error: ", "Error in new_model: ">>]
  ELSE [ok |-> TRUE, msg |-> <<>>, stored |-> TRUE]

\* The status stan3_load_model derives from the message of a failed call.
load_model_status(msg) ==
  IF Contains(msg, "parsing failed") THEN "STAN3_ERROR_PARSING"
  ELSE IF Contains(msg, "Invalid argument") THEN "STAN3_ERROR_INVALID_ARGS"
  ELSE "STAN3_ERROR_MODEL_LOAD"

\* The locals of run_hmc and of the runner as a new call finds them.
ResetRun(a) ==
  /\ model' = "none"
  /\ init_contexts' = <<>>
  /\ metric_contexts' = <<>>
  /\ writers' = <<>>
  /\ config' = <<>>
  /\ chain' = [i \in 1..a.num_chains |->
                 [status |-> "idle", iters |-> 0, chain_id |-> 0]]
  /\ first_error' = 0
  /\ raised' = <<>>
  /\ touched' = {}
  /\ log' = {}
  /\ err_msg' = NoError
  /\ ret' = -1

\* The threads of the program that calls the library: main's alone, or two.
Threads == {1, 2}

CallerThreads == IF entry = "clients" THEN Threads ELSE {MainThread}

\* model_name() of the model new_model returns. new_model is declared extern
\* and defined by whatever the library is linked with; the names it may give
\* its models are one, or two.
NewModelNames ==
  IF entry = "clients" THEN {LinkedModelName, "normal_model"} ELSE {LinkedModelName}

\* A caller may make its next call: none is in progress and it has calls left.
MayCall ==
  /\ entry \in {"session", "clients"}
  /\ pc \in {"entry", "returned"}
  /\ Len(calls) < MaxCalls

\* The data files a model is loaded with: none, a good one, one that is not
\* there, one that starts like JSON and is not.
SessionDataFiles == {"", "data.json", "data_missing.json", "init_malformed.json"}

\* stan3_load_model(argc, argv, error_message, error_message_size)
SessionLoadModel ==
  /\ MayCall
  /\ \E t \in CallerThreads : thread' = t
  /\ \E argv_ok \in BOOLEAN, size \in BufferSizes, d \in SessionDataFiles,
        new_model_ok \in BOOLEAN, name \in NewModelNames :
       LET buf == [size |-> size, text |-> buffer.text]
           r == load_model_impl(d, new_model_ok)
       IN /\ loaded_name' = IF argv_ok /\ r.stored THEN name ELSE loaded_name
          /\ IF ~argv_ok
            THEN /\ ApiFailure("load_model", FALSE, <<"Invalid arguments: argc < 0 or argv is NULL">>,
                               "STAN3_ERROR_INVALID_ARGS", buf)
                 /\ UNCHANGED <<g_model, error_message, opens>>
            ELSE /\ g_model' = (g_model \/ r.stored)
                 /\ error_message' = r.msg
                 /\ opens' = IF parse_model_args(d).ok
                               THEN Opened(app_parse(Named([data_file |-> d,
                                             init_files |-> <<>>, metric_files |-> <<>>]),
                                             1, <<>>).opens, d, "data", 0)
                               ELSE app_parse(Named([data_file |-> d,
                                             init_files |-> <<>>, metric_files |-> <<>>]),
                                             1, <<>>).opens
                 /\ IF r.ok THEN ApiSuccess("load_model", TRUE, buf)
                    ELSE ApiFailure("load_model", TRUE, r.msg, load_model_status(r.msg), buf)
  /\ ResetRun(args)
  /\ UNCHANGED <<args, entry, policy, out_dir, validation_passed, filenames,
                 static_model_name, parses>>

\* The arguments of the runs of a session: one chain, and either good
\* arguments, thin above num_samples, or an init file that is not there.
SessionArgs ==
  {[DefaultArgs EXCEPT !.data_file = "data.json", !.output_dir = "", !.thin = t,
                       !.init_files = il] :
     t \in {1, 2}, il \in {<<>>, <<"init_missing.json">>}}

\* stan3_run_samplers called in a session, up to the call of run_hmc.
SessionRunSamplers ==
  /\ MayCall
  /\ \E t \in CallerThreads : thread' = t
  /\ UNCHANGED <<nameVars, parses>>
  /\ \E a \in SessionArgs, argv_ok \in BOOLEAN, size \in BufferSizes :
       /\ args' = a
       /\ ResetRun(a)
       /\ RunSamplersCall(a, argv_ok, [size |-> size, text |-> buffer.text])
  /\ UNCHANGED <<entry, policy, g_model, out_dir, filenames>>

\* stan3_clear_error()
SessionClearError ==
  /\ MayCall
  /\ \E t \in CallerThreads : thread' = t
  /\ UNCHANGED <<nameVars, parses>>
  /\ g_last_error' = <<>>
  /\ calls' = Append(calls, [fn |-> "clear_error", argv_ok |-> TRUE, status |-> "void",
                            msg |-> <<>>, thread |-> thread'])
  /\ pc' = "returned"
  /\ ResetRun(args)
  /\ UNCHANGED <<args, entry, policy, g_model, out_dir, validation_passed, error_message,
                 exit_code, opens, buffer, filenames>>

InitSession ==
  /\ args = [DefaultArgs EXCEPT !.data_file = "data.json"]
  /\ entry = "session"
  /\ policy = "sequential"
  /\ g_model = FALSE
  /\ out_dir = "exists"
  /\ pc = "entry"
  /\ Fresh

NextSession ==
  \/ SessionLoadModel
  \/ SessionRunSamplers
  \/ SessionClearError
  \/ CApiReturn
  \/ NextRun

SpecSession == InitSession /\ [][NextSession]_vars

\* stan3_is_model_loaded()
stan3_is_model_loaded == IF g_model THEN 1 ELSE 0

\* stan3_get_last_error(): NULL for the empty string, else its text.
stan3_get_last_error == [null |-> g_last_error = <<>>, text |-> g_last_error]

\* ---------------------------------------------------------------- C29
\* Some earlier stan3_load_model call returned STAN3_SUCCESS.
SomeLoadSucceeded ==
  \E k \in 1..Len(calls) :
    calls[k].fn = "load_model" /\ calls[k].status = "STAN3_SUCCESS"

\* A step that is a call of stan3_run_samplers made while no model is loaded.
RunSamplersWithoutModel ==
  /\ MayCall
  /\ ~g_model
  /\ \/ pc' = "run_hmc"
     \/ /\ Len(calls') = Len(calls) + 1
        /\ calls'[Len(calls')].fn = "run_samplers"

\* The call returns STAN3_ERROR_MODEL_LOAD with a 'No model loaded' message,
\* and has neither parsed its arguments nor run a sampler.
RefusedForNoModel ==
  /\ pc' = "returned"
  /\ exit_code' = "STAN3_ERROR_MODEL_LOAD"
  /\ Contains(g_last_error', "No model loaded")
  /\ opens' = opens
  /\ validation_passed' = validation_passed
  /\ model' = "none"
  /\ \A k \in DOMAIN chain' : chain'[k].status = "idle"

\* C29 as stated: after any sequence of API calls stan3_is_model_loaded
\* returns 1 iff some earlier stan3_load_model call returned STAN3_SUCCESS,
\* and every stan3_run_samplers call made while no model is loaded returns
\* STAN3_ERROR_MODEL_LOAD with a 'No model loaded' message without parsing
\* arguments or running any sampler.
C29_NoModelRefused ==
  /\ [](stan3_is_model_loaded = 1 <=> SomeLoadSucceeded)
  /\ [][RunSamplersWithoutModel => RefusedForNoModel]_vars

\* C29: after any sequence of API calls stan3_is_model_loaded returns 1 iff
\* some earlier stan3_load_model call returned STAN3_SUCCESS, and a
\* stan3_run_samplers call made with argc >= 0 and argv not NULL while no
\* model is loaded returns STAN3_ERROR_MODEL_LOAD with a 'No model loaded'
\* message without parsing arguments or running any sampler.
C29_NoModelRefusedGivenArgv ==
  /\ [](stan3_is_model_loaded = 1 <=> SomeLoadSucceeded)
  /\ [][(RunSamplersWithoutModel /\ pc' = "returned" /\ calls'[Len(calls')].argv_ok)
          => RefusedForNoModel]_vars
  /\ [][RunSamplersWithoutModel => pc' = "returned"]_vars

\* A load that failed, then a run with a good argv that was refused for want
\* of a model.
C29_Witness ==
  /\ entry = "session"
  /\ Len(calls) = 2
  /\ calls[1].fn = "load_model"
  /\ calls[1].status = "STAN3_ERROR_MODEL_LOAD"
  /\ calls[2].fn = "run_samplers"
  /\ calls[2].argv_ok
  /\ calls[2].status = "STAN3_ERROR_MODEL_LOAD"
  /\ stan3_is_model_loaded = 0

\* ---------------------------------------------------------------- C30
\* No call is in progress.
BetweenCalls == entry = "session" /\ pc \in {"entry", "returned"}

\* C30: after any sequence of stan3_load_model, stan3_run_samplers and
\* stan3_clear_error calls, stan3_get_last_error returns NULL iff the most
\* recent call was a successful load or run, or a clear, or there was none;
\* otherwise it returns the message of the most recent call, and that call's
\* buffer, when it has room for anything, holds the message or the start of
\* it that fits.
C30_LastError ==
  BetweenCalls =>
    LET n == Len(calls)
    IN IF n = 0 \/ calls[n].status \in {"STAN3_SUCCESS", "void"}
         THEN stan3_get_last_error.null
         ELSE /\ ~stan3_get_last_error.null
              /\ stan3_get_last_error.text = calls[n].msg
              /\ buffer.size > 0 =>
                   buffer.text = SubSeq(calls[n].msg, 1,
                                        Min(Len(calls[n].msg), buffer.size - 1))

\* A failed call, a clear, and a failed call whose message did not fit the
\* buffer it was given.
C30_Witness ==
  /\ BetweenCalls
  /\ Len(calls) = 3
  /\ calls[1].status \notin {"STAN3_SUCCESS", "void"}
  /\ calls[2].fn = "clear_error"
  /\ calls[3].status \notin {"STAN3_SUCCESS", "void"}
  /\ calls[3].msg # calls[1].msg
  /\ buffer.size > 0
  /\ Len(buffer.text) < Len(calls[3].msg)

\* ------------------------------------------- the callers of the C API
\* stan3_get_model_name(): NULL without a model; otherwise the static
\* model_name, which its first such call initializes from the model held then.
stan3_get_model_name ==
  IF ~g_model THEN [null |-> TRUE, text |-> ""]
  ELSE [null |-> FALSE,
        text |-> IF static_model_name = <<>> THEN loaded_name
                 ELSE static_model_name[1]]

\* One call of stan3_get_model_name between two other calls.
SessionGetModelName ==
  /\ entry = "clients"
  /\ pc \in {"entry", "returned"}
  /\ g_model
  /\ static_model_name = <<>>
  /\ static_model_name' = <<stan3_get_model_name.text>>
  /\ UNCHANGED <<args, entry, policy, g_model, out_dir, pc, validation_passed,
                 error_message, exit_code, opens, g_last_error, buffer, calls,
                 filenames, parses, thread, loaded_name>>
  /\ UNCHANGED runVars

InitClients ==
  /\ args = [DefaultArgs EXCEPT !.data_file = "data.json"]
  /\ entry = "clients"
  /\ policy = "sequential"
  /\ g_model = FALSE
  /\ out_dir = "exists"
  /\ pc = "entry"
  /\ Fresh

NextClients ==
  \/ SessionLoadModel
  \/ SessionRunSamplers
  \/ SessionClearError
  \/ SessionGetModelName
  \/ CApiReturn
  \/ NextRun

SpecClients == InitClients /\ [][NextClients]_vars

\* No call of any thread is in progress.
NoCallInProgress == entry = "clients" /\ pc \in {"entry", "returned"}

\* ---------------------------------------------------------------- C31
\* The last of the calls that thread t made (0: it made none).
LastCallOf(t) ==
  LET own == {k \in 1..Len(calls) : calls[k].thread = t}
  IN IF own = {} THEN 0 ELSE CHOOSE k \in own : \A j \in own : j <= k

\* The error thread t recorded last and has not cleared since (<<>>: none).
OwnLastError(t) ==
  IF LastCallOf(t) = 0 \/ calls[LastCallOf(t)].status \in {"STAN3_SUCCESS", "void"}
    THEN <<>>
    ELSE calls[LastCallOf(t)].msg

\* C31: the last error is thread-local: what stan3_get_last_error returns
\* on a thread is the error that thread's own calls recorded last, whatever
\* the calls of the other threads recorded, overwrote or cleared.
C31_ThreadLocal ==
  NoCallInProgress =>
    \A t \in Threads : stan3_get_last_error.text = OwnLastError(t)

\* ---------------------------------------------------------------- C32
\* C32: stan3_get_model_name returns NULL when no model is loaded and
\* otherwise the name of the model loaded now, after any sequence of loads,
\* a load of a model of another name after a query included.
C32_NameOfLoadedModel ==
  NoCallInProgress =>
    /\ stan3_get_model_name.null <=> ~g_model
    /\ g_model => stan3_get_model_name.text = loaded_name

\* --------------------------------------------- parse_hmc_args on an argv
\* An argv is a list of options, each with the value that follows it (a flag
\* has none, written 1); numbers are as the library converted them, a stepsize
\* counted in tenths.
MaxOptions == 2

\* hmc_nuts_args as default-constructed, the fields that the options below
\* set.
HmcDefaults ==
  [num_chains |-> 1, stepsize |-> 10, num_warmup |-> 1000, num_samples |-> 1000,
   thin |-> 1, save_warmup |-> FALSE]

\* Of the options parse_hmc_args adds to its app, those followed here, in the
\* order it adds them.
HmcOptions == <<"--stepsize", "--warmup", "--samples", "--thin", "--save-warmup">>

\* The option setup_inference_options adds; parse_hmc_args does not call it.
InferenceOptions == {"--chains"}

\* The field an option is bound to.
FieldOf(opt) ==
  CASE opt = "--chains" -> "num_chains"
    [] opt = "--stepsize" -> "stepsize"
    [] opt = "--warmup" -> "num_warmup"
    [] opt = "--samples" -> "num_samples"
    [] opt = "--thin" -> "thin"
    [] opt = "--save-warmup" -> "save_warmup"

\* The check attached to an option: PositiveNumber, NonNegativeNumber, none.
OptionCheck(opt, val) ==
  CASE opt \in {"--chains", "--stepsize", "--thin"} -> val > 0
    [] opt \in {"--warmup", "--samples"} -> val >= 0
    [] OTHER -> TRUE

\* The value an option stores in its field.
Stored(opt, val) == IF opt = "--save-warmup" THEN TRUE ELSE val

\* The callbacks of app.parse: the options of the app that are on the command
\* line are checked and stored in the order they were added; the first value
\* that fails its check raises CLI::ValidationError.
RECURSIVE run_callbacks(_, _, _, _)
run_callbacks(options, argv, k, a) ==
  IF k > Len(options) THEN [ok |-> TRUE, args |-> a]
  ELSE LET given == {i \in 1..Len(argv) : argv[i].opt = options[k]}
       IN IF given = {} THEN run_callbacks(options, argv, k + 1, a)
          ELSE LET tok == argv[CHOOSE i \in given : TRUE]
               IN IF ~OptionCheck(tok.opt, tok.val) THEN [ok |-> FALSE, args |-> a]
                  ELSE run_callbacks(options, argv, k + 1,
                         [a EXCEPT ![FieldOf(tok.opt)] = Stored(tok.opt, tok.val)])

\* The arguments validate_hmc_arguments is given after a parse with no files.
ForValidation(a) ==
  [DefaultArgs EXCEPT !.num_chains = a.num_chains, !.num_samples = a.num_samples,
                      !.thin = a.thin, !.num_warmup = a.num_warmup,
                      !.save_warmup = a.save_warmup]

\* parse_hmc_args(argc, argv, args, error_msg): app.parse runs the callbacks
\* of the options the app has, then raises CLI::ExtrasError if the command
\* line holds anything the app has not; validate_hmc_arguments comes last.
parse_argv(options, argv) ==
  LET cb == run_callbacks(options, argv, 1, HmcDefaults)
      known == {options[k] : k \in 1..Len(options)}
  IN IF ~cb.ok
       THEN [ok |-> FALSE, args |-> cb.args,
             msg |-> <<"HMC argument ", "parsing failed", ": ", ValidationErrorCode>>]
     ELSE IF \E i \in 1..Len(argv) : argv[i].opt \notin known
       THEN [ok |-> FALSE, args |-> cb.args,
             msg |-> <<"HMC argument ", "parsing failed", ": ", ExtrasErrorCode>>]
     ELSE [ok |-> validate_hmc_arguments(ForValidation(cb.args)).ok, args |-> cb.args,
           msg |-> validate_hmc_arguments(ForValidation(cb.args)).msg]

\* The values tried for an option.
OptionValues(opt) ==
  CASE opt = "--chains" -> {1, 2}
    [] opt = "--stepsize" -> {5}
    [] opt = "--warmup" -> {0, 500}
    [] opt = "--samples" -> {0, 2, 1000}
    [] opt = "--thin" -> {0, 1, 5}
    [] opt = "--save-warmup" -> {1}

Tokens ==
  UNION {{[opt |-> o, val |-> v] : v \in OptionValues(o)} :
           o \in InferenceOptions \cup {HmcOptions[k] : k \in 1..Len(HmcOptions)}}

\* The command lines tried: up to MaxOptions options, none of them twice.
Argvs ==
  UNION {{av \in [1..n -> Tokens] :
            \A i \in 1..n : \A j \in 1..n : (i # j) => av[i].opt # av[j].opt} :
           n \in 0..MaxOptions}

InitParse ==
  /\ args = DefaultArgs
  /\ entry = "parse"
  /\ policy = "sequential"
  /\ g_model = FALSE
  /\ out_dir = "exists"
  /\ pc = "entry"
  /\ Fresh

\* One call of parse_hmc_args, on hmc_nuts_args as constructed.
ParseHmcArgs ==
  /\ pc = "entry"
  /\ entry = "parse"
  /\ parses = <<>>
  /\ \E argv \in Argvs :
       parses' = <<[argv |-> argv, result |-> parse_argv(HmcOptions, argv)]>>
  /\ UNCHANGED <<args, entry, policy, g_model, out_dir, pc, validation_passed,
                 error_message, opens, g_last_error, buffer, calls, exit_code,
                 filenames, thread, nameVars>>
  /\ UNCHANGED runVars

NextParse == ParseHmcArgs

SpecParse == InitParse /\ [][NextParse]_vars

\* ---------------------------------------------------------------- C33
\* A command line is well-formed: every option is one of the HMC interface,
\* every value passes its option's check, and thin does not exceed a positive
\* number of samples.
WellFormed(argv) ==
  /\ \A i \in 1..Len(argv) : OptionCheck(argv[i].opt, argv[i].val)
  /\ \A i \in 1..Len(argv) : \A j \in 1..Len(argv) :
       (argv[i].opt = "--thin" /\ argv[j].opt = "--samples" /\ argv[j].val > 0)
         => argv[i].val <= argv[j].val
  /\ \A i \in 1..Len(argv) :
       (argv[i].opt = "--thin" /\ \A j \in 1..Len(argv) : argv[j].opt # "--samples")
         => argv[i].val <= HmcDefaults.num_samples

\* What the fields are to hold after a parse of argv: the value given for the
\* field where there is one, its default otherwise.
Expected(argv) ==
  [f \in DOMAIN HmcDefaults |->
     IF \E i \in 1..Len(argv) : FieldOf(argv[i].opt) = f
       THEN LET i == CHOOSE i \in 1..Len(argv) : FieldOf(argv[i].opt) = f
            IN Stored(argv[i].opt, argv[i].val)
       ELSE HmcDefaults[f]]

\* C33: parse_hmc_args, given a well-formed command line that involves no
\* files, returns true and stores each given value in its field, the other
\* fields keeping their defaults.
C33_ParseStores ==
  \A k \in 1..Len(parses) :
    WellFormed(parses[k].argv) =>
      /\ parses[k].result.ok
      /\ parses[k].result.args = Expected(parses[k].argv)

\* ---------------------------------------------------------------- C34
\* load_samplers has returned normally and the run has not ended.
SamplersLoaded == pc = "run_chains"

\* C34: once load_samplers has returned normally for N chains, samplers, rngs
\* and init_params hold N entries each, every init_params[i] is non-empty,
\* and sampler i refers to rngs[i], the RNG that produced init_params[i],
\* where rngs[i] is now; this stays so until the run ends.
C34_SamplerBoundToOwnRng ==
  SamplersLoaded =>
    /\ Len(config) = args.num_chains
    /\ \A k \in 1..Len(config) :
         /\ config[k].init_params.size > 0
         /\ config[k].sampler.rng_at = [block |-> RngsBlock(Len(config)), index |-> k - 1]
         /\ config[k].init_params.from = config[k].rng
         /\ config[k].sampler.rng = config[k].rng

\* Three chains loaded and the second running.
C34_Witness ==
  /\ SamplersLoaded
  /\ args.num_chains = 3
  /\ Len(config) = 3
  /\ chain[2].status = "running"

\* ------------------------------------------- create_samplers called directly
\* The tag of a metric_t that is none of its three enumerators, as text.
UnknownTag == "999"

\* A null pointer in the place of a metric context.
NullContext == [kind |-> "null", file |-> ""]

\* The metric context a caller hands over for a chain: a null pointer, the
\* empty context, a file that holds the inverse metric, one that holds a
\* metric of the wrong shape, or one whose metric is not positive definite.
CallerMetricContexts ==
  {NullContext, EmptyContext} \cup
  {[kind |-> "json", file |-> f] :
     f \in {MetricGood[1], "metric_wrongshape.json", "metric_notpd.json"}}

CreateArgs ==
  {[DefaultArgs EXCEPT !.num_chains = c, !.metric_type = mt, !.save_start_params = sp] :
     c \in 1..MaxChains, mt \in MetricTypes \cup {UnknownTag}, sp \in SaveFlags}

\* A caller, as the unit tests are, that has a model, contexts and init writers
\* for every chain and calls create_samplers.
InitCreate ==
  /\ args \in CreateArgs
  /\ entry = "create_samplers"
  /\ policy = "sequential"
  /\ g_model = FALSE
  /\ out_dir = "exists"
  /\ pc = "load_samplers"
  /\ model = "params"
  /\ init_contexts = [k \in 1..args.num_chains |-> make_shared(EmptyContext, "init", k)]
  /\ metric_contexts \in [1..args.num_chains -> CallerMetricContexts]
  /\ writers = create_hmc_nuts_multi_chain_writers(args)
  /\ validation_passed = TRUE
  /\ error_message = <<>>
  /\ config = <<>>
  /\ chain = [i \in 1..args.num_chains |-> [status |-> "idle", iters |-> 0, chain_id |-> 0]]
  /\ first_error = 0
  /\ raised = <<>>
  /\ touched = {}
  /\ log = {}
  /\ err_msg = NoError
  /\ ret = -1
  /\ exit_code = ""
  /\ opens = <<>>
  /\ g_last_error = <<>>
  /\ buffer = [size |-> 0, text |-> <<>>]
  /\ calls = <<>>
  /\ filenames = <<>>
  /\ parses = <<>>
  /\ thread = MainThread
  /\ loaded_name = ""
  /\ static_model_name = <<>>

NextCreate == LoadSampler

SpecCreate == InitCreate /\ [][NextCreate]_vars

\* ---------------------------------------------------------------- C35
\* C35: create_samplers takes one construction path, the one of the run's
\* tag, for every chain, so the samplers of a run are all of the type of that
\* tag; a tag that is none of the three raises an error before any chain's
\* RNG, initial point or sampler is created.
C35_OnePath ==
  /\ \A k \in 1..Len(config) :
       /\ args.metric_type \in MetricTypes
       /\ config[k].sampler.type = sampler_traits(args.metric_type)
       /\ config[k].sampler.windowed = (args.metric_type # "UNIT_E")
       /\ (config[k].sampler.metric.kind = "unit") = (args.metric_type = "UNIT_E")
  /\ (args.metric_type \notin MetricTypes /\ pc # "load_samplers") =>
       /\ err_msg.stage = "create_samplers"
       /\ Contains(err_msg.what, "Unknown metric type: ")
       /\ config = <<>>

\* An unknown tag has been refused.
C35_Witness ==
  /\ entry = "create_samplers"
  /\ args.metric_type = UnknownTag
  /\ args.num_chains = 3
  /\ err_msg.stage = "create_samplers"
  /\ config = <<>>

\* ---------------------------------------------------------------- C36
\* The chains whose sampler has been given a diagonal or dense metric.
MetricSet == IF args.metric_type \in {"DIAG_E", "DENSE_E"} THEN 1..Len(config) ELSE {}

\* The metric context of chain k is a null pointer, or reading it raises.
NoMetricFor(k) ==
  metric_contexts[k].kind = "null" \/ ~InvMetricReadable(metric_contexts[k])

MetricMessageFor(k) ==
  \E e \in log :
    /\ e.chain = k
    /\ e.text \in {"Using unit diagonal metric (failed to read provided metric)",
                   "Using identity matrix metric (failed to read provided metric)"}

SinksAttempted ==
  /\ entry = "run_hmc"
  /\ pc \notin {"run_hmc", "load_model", "outputs"}
  /\ err_msg.stage \notin {"data", "model"}

\* C37: for every number of chains, one as well as several, the configured
\* output directory is there once run_hmc has gone to open its sinks: one that
\* was absent and could be created has been created, and no sink failed to
\* open for want of it.
C37_DirectoryEnsured ==
  SinksAttempted =>
    /\ out_dir # "absent"
    /\ (err_msg.stage = "writers" /\ out_dir # "readonly") => err_msg.chain # 0

\* ---------------------------------------------------------------- C38
\* The call that has just returned was a stan3_run_samplers that returned
\* STAN3_ERROR_SAMPLING.
ReturnedSamplingError ==
  /\ entry = "session"
  /\ pc = "returned"
  /\ Len(calls) > 0
  /\ calls[Len(calls)].fn = "run_samplers"
  /\ calls[Len(calls)].status = "STAN3_ERROR_SAMPLING"

\* C38: stan3_run_samplers returns STAN3_ERROR_SAMPLING only when run_hmc was
\* invoked and reported failure; a call that ended before the run (bad argc or
\* argv, no model, arguments that do not parse or do not pass validation)
\* returns another code.
C38_SamplingOnlyFromRun ==
  ReturnedSamplingError => ret = 1

\* ---------------------------------------------------------------- C39
\* A step that is a stan3_load_model call returning a failure.
FailedLoad ==
  /\ MayCall
  /\ Len(calls') = Len(calls) + 1
  /\ calls'[Len(calls')].fn = "load_model"
  /\ calls'[Len(calls')].status # "STAN3_SUCCESS"

\* A step that is a stan3_run_samplers call, with a usable argv, returning
\* before run_hmc.
RunSamplersRefused ==
  /\ MayCall
  /\ Len(calls') = Len(calls) + 1
  /\ calls'[Len(calls')].fn = "run_samplers"
  /\ calls'[Len(calls')].argv_ok

\* C39: a stan3_load_model call that fails leaves the loaded model as it was
\* (none stays none, a loaded one stays that one) and sets the last error to
\* its message; and while a model is loaded no stan3_run_samplers call is
\* refused for want of one.
C39_FailedLoadKeepsModel ==
  /\ [][FailedLoad => /\ g_model' = g_model
                      /\ loaded_name' = loaded_name
                      /\ static_model_name' = static_model_name
                      /\ g_last_error' = calls'[Len(calls')].msg
                      /\ g_last_error' # <<>>]_vars
  /\ [][(RunSamplersRefused /\ g_model) =>
          /\ exit_code' # "STAN3_ERROR_MODEL_LOAD"
          /\ ~Contains(g_last_error', "No model loaded")]_vars

\* A model was loaded, a second load failed in new_model, and the run after it
\* sampled with the model of the first.
C39_Witness ==
  /\ entry = "session"
  /\ Len(calls) = 3
  /\ calls[1].fn = "load_model" /\ calls[1].status = "STAN3_SUCCESS"
  /\ calls[2].fn = "load_model" /\ calls[2].status = "STAN3_ERROR_MODEL_LOAD"
  /\ calls[3].fn = "run_samplers" /\ calls[3].status = "STAN3_SUCCESS"
  /\ g_model
  /\ loaded_name = LinkedModelName

\* ------------------------------------------- copy_error_message, byte by byte
MaxLen == 3
MaxSize == 4

\* The terminating byte, and what a byte of the caller's memory holds before
\* the call.
NUL == "\\0"
Untouched == "?"

\* The characters of a message: a std::string put together from C strings
\* holds no NUL.
Chars == {"a", "b"}

Messages == UNION {[1..n -> Chars] : n \in 0..MaxLen}

\* The caller's memory from the address of the buffer on: the buffer_size bytes
\* of the buffer and the bytes behind it.
Memory == [k \in 1..(MaxSize + 1) |-> Untouched]

\* std::strncpy(dest, src, count): count bytes are written, those of src and,
\* when src is shorter, NULs.
strncpy(dest, src, count) ==
  [k \in DOMAIN dest |->
     IF k <= count THEN (IF k <= Len(src) THEN src[k] ELSE NUL) ELSE dest[k]]

\* copy_error_message with copy_len not kept below the size of the buffer.
copy_error_message_bytes_NoRoom(error_msg, buf) ==
  IF ~buf.null /\ buf.size > 0
    THEN LET copy_len == Min(Len(error_msg), buf.size)
         IN [buf EXCEPT !.bytes = [strncpy(buf.bytes, error_msg, copy_len)
                                     EXCEPT ![copy_len + 1] = NUL]]
    ELSE buf

\* copy_error_message(error_msg, buffer, buffer_size) on the bytes of the
\* caller's memory.
copy_error_message_bytes(error_msg, buf) ==
  IF ~buf.null /\ buf.size > 0
    THEN LET copy_len == Min(Len(error_msg), buf.size - 1)
         IN [buf EXCEPT !.bytes = [strncpy(buf.bytes, error_msg, copy_len)
                                     EXCEPT ![copy_len + 1] = NUL]]
    ELSE buf

\* A caller with a message and a buffer (or none) of some size.
InitCopy ==
  /\ args = DefaultArgs
  /\ entry = "copy_error_message"
  /\ policy = "sequential"
  /\ g_model = FALSE
  /\ out_dir = "exists"
  /\ pc = "entry"
  /\ model = "none"
  /\ init_contexts = <<>>
  /\ metric_contexts = <<>>
  /\ writers = <<>>
  /\ validation_passed = TRUE
  /\ error_message \in Messages
  /\ config = <<>>
  /\ chain = [i \in 1..args.num_chains |-> [status |-> "idle", iters |-> 0, chain_id |-> 0]]
  /\ first_error = 0
  /\ raised = <<>>
  /\ touched = {}
  /\ log = {}
  /\ err_msg = NoError
  /\ ret = -1
  /\ exit_code = ""
  /\ opens = <<>>
  /\ g_last_error = <<>>
  /\ buffer \in [null : BOOLEAN, size : 0..MaxSize, bytes : {Memory}]
  /\ calls = <<>>
  /\ filenames = <<>>
  /\ parses = <<>>
  /\ thread = MainThread
  /\ loaded_name = ""
  /\ static_model_name = <<>>

CopyErrorMessage ==
  /\ pc = "entry"
  /\ entry = "copy_error_message"
  /\ buffer' = copy_error_message_bytes(error_message, buffer)
  /\ pc' = "returned"
  /\ UNCHANGED <<args, entry, policy, g_model, out_dir, validation_passed, error_message,
                 exit_code, opens, g_last_error, calls, filenames, parses, thread,
                 nameVars>>
  /\ UNCHANGED runVars

NextCopy == CopyErrorMessage

SpecCopy == InitCopy /\ [][NextCopy]_vars

\* ---------------------------------------------------------------- C40
\* C40: copy_error_message writes nothing when the buffer is NULL or has size
\* 0; otherwise it writes the first min(L, S - 1) bytes of the message and one
\* NUL after them, all within the S bytes of the buffer, and no other byte.
C40_WithinBuffer ==
  (entry = "copy_error_message" /\ pc = "returned") =>
    LET L == Len(error_message)
        S == buffer.size
        n == Min(L, S - 1)
    IN IF buffer.null \/ S = 0
         THEN buffer.bytes = Memory
         ELSE /\ n + 1 <= S
              /\ \A k \in 1..n : buffer.bytes[k] = error_message[k]
              /\ buffer.bytes[n + 1] = NUL
              /\ \A k \in (n + 2)..(MaxSize + 1) : buffer.bytes[k] = Untouched

\* A message longer than the buffer has room for: the start that fits and the
\* NUL in the last byte of the buffer.
C40_Witness ==
  /\ entry = "copy_error_message"
  /\ pc = "returned"
  /\ ~buffer.null
  /\ buffer.size = 3
  /\ Len(error_message) = 3
  /\ buffer.bytes[1] = error_message[1]
  /\ buffer.bytes[2] = error_message[2]
  /\ buffer.bytes[3] = NUL
  /\ buffer.bytes[4] = Untouched

====
